---- MODULE Spec2Model ----
(***************************************************************************)
(* A model of the relay of the E2EE messaging system and of its clients.   *)
(*                                                                         *)
(* Part I   the relay's replay protection: sendMessage and                 *)
(*          validateReplayProtection over the MessageSequence collection,  *)
(*          one step per await of the handlers, so that requests of        *)
(*          several connections interleave as they do on the node.js       *)
(*          event loop.                                                    *)
(* Part II  the key exchange: the clients' initiateKeyExchange,            *)
(*          respondToKeyExchange and completeKeyExchange, the relay's      *)
(*          three key-exchange handlers, the TTL index of the KeyExchange  *)
(*          collection and an on-path attacker who alters relay records.   *)
(* Part III the encryption of messages: encryptMessage and decryptMessage  *)
(*          with the conversions they apply (UTF-8, base64, AES-GCM).      *)
(*                                                                         *)
(* Storage semantics assumed of the mongoose/MongoDB layer (not part of    *)
(* the repository): save() of a new document inserts it and fails on a     *)
(* unique-index collision; save() of a loaded document writes only the     *)
(* paths modified since load ($set for scalars and replaced arrays, $push  *)
(* for pushed elements); a replaced array is written under the version     *)
(* condition __v = loaded version, every array write increments __v; a     *)
(* TTL index deletes a document at some moment after its expiry.           *)
(***************************************************************************)
EXTENDS Integers, Sequences, FiniteSets, TLC

VARIABLES
  now,          \* the server clock, Date.now(), in milliseconds
  ticks,        \* number of clock advances so far
  scenario,     \* what the environment does in this behaviour: the request
                \* bodies clients send, how many, and how the clock advances
  issued,       \* sendMessage requests issued so far
  db,           \* MessageSequence collection: exchangeId -> stored document
  messages,     \* Message collection, in insertion order
  pc,           \* per connection: the await sendMessage is suspended at
  req,          \* per connection: the request being handled
  sequenceDoc,  \* per connection: the handler's in-memory sequenceDoc
  done,         \* the responses sent so far, in order of completion
  kx,           \* KeyExchange collection: exchangeId -> stored record
  fresh,        \* source of fresh random values: ephemeral keys and nonces
  ephemeralKeys,\* per user: the local store of ephemeral key pairs
  sessionKeys,  \* per user: the local store of session keys
  call,         \* per user: the key-exchange call in progress
  kxDone,       \* the key-exchange calls finished so far, in order
  tampered,     \* number of alterations the attacker has made
  signed,       \* history: the <<signer, message>> pairs actually signed
  outbox,       \* history: the requests the clients have sent to the relay
  sequences,    \* per user: the local store of message sequence counters
  crypto        \* one run of encryptMessage and decryptMessage

replayVars == <<issued, db, messages, pc, req, sequenceDoc, done>>
clientVars == <<outbox, sequences, crypto>>
kxVars ==
  <<kx, fresh, ephemeralKeys, sessionKeys, call, kxDone, tampered, signed,
    clientVars>>
vars == <<now, ticks, scenario, replayVars, kxVars>>

---------------------------------------------------------------------------
(* Bounds of the model *)
MaxReqs == 3
MaxTicks == 2
MaxSeq == 3

(* Program constants *)
TIMESTAMP_WINDOW == 300000
ONE_HOUR == 3600000

Procs == 1..2
Users == {"u1", "u2", "u3"}
Nonces == {"n1", "n2"}

(* Rejection reasons of validateReplayProtection *)
PairMismatch == "User pair mismatch"
SeqTooOld == "Sequence number too old"
DuplicateNonce == "Duplicate nonce detected"
BadTimestamp == "Timestamp outside acceptable window"
ValidationError == "Validation error"

---------------------------------------------------------------------------
(* Part I: replay protection *)

(* A request body of POST /messages/send. hasSeq = FALSE is a body without
   sequenceNumber; nonce = "" and exchangeId = "" are absent (falsy) fields;
   timestamp = 0 is an absent timestamp. *)
Body(ex, from, to, hasSeq, seq, nonce, ts) ==
  [exchangeId |-> ex, fromUserId |-> from, toUserId |-> to, hasSeq |-> hasSeq,
   sequenceNumber |-> seq, nonce |-> nonce, timestamp |-> ts]

(* A request of a client to the relay, as api.post sends it, and the
   bodies of the message requests sent so far. *)
Request(url, body) == [url |-> url, body |-> body]
MessageRequests == {r \in outbox : r.url = "/messages/send"}
Posted == {r.body : r \in MessageRequests}

(* new MessageSequence({...}). Besides the schema's fields the in-memory
   document carries what mongoose tracks of it: whether it is new, the
   version it was loaded at, and the paths modified since load. *)
NewSequenceDoc(from, to) ==
  [isNew |-> TRUE, fromUserId |-> from, toUserId |-> to,
   sequenceFromTo |-> 0, sequenceToFrom |-> 0,
   usedNonces |-> {}, recentTimestamps |-> {}, v |-> 0,
   fromToSet |-> FALSE, toFromSet |-> FALSE,
   noncesReplaced |-> FALSE, timestampsReplaced |-> FALSE,
   noncesPushed |-> {}, timestampsPushed |-> {}]

(* The document findOne returns, as the handler's in-memory copy. *)
Loaded(stored) ==
  [NewSequenceDoc(stored.fromUserId, stored.toUserId) EXCEPT
     !.isNew = FALSE,
     !.sequenceFromTo = stored.sequenceFromTo, !.sequenceToFrom = stored.sequenceToFrom,
     !.usedNonces = stored.usedNonces, !.recentTimestamps = stored.recentTimestamps,
     !.v = stored.v]

(* What is stored of an in-memory document. *)
Stored(d) ==
  [fromUserId |-> d.fromUserId, toUserId |-> d.toUserId,
   sequenceFromTo |-> d.sequenceFromTo, sequenceToFrom |-> d.sequenceToFrom,
   usedNonces |-> d.usedNonces, recentTimestamps |-> d.recentTimestamps, v |-> d.v]

(* entry.createdAt > oneHourAgo *)
Recent(entry, t) == entry.createdAt > t - ONE_HOUR

(* A cleanup that drops every entry, whatever its age. *)
DropAllEntries(d, t) ==
  [d EXCEPT !.usedNonces = {}, !.recentTimestamps = {},
            !.noncesReplaced = (d.usedNonces # {}),
            !.timestampsReplaced = (d.recentTimestamps # {})]

(* cleanupOldEntries up to its save(): the two filters. A path is marked
   modified only when the filtered array differs from the loaded one. *)
cleanupOldEntries(d, t) ==
  LET nonces == {e \in d.usedNonces : Recent(e, t)}
      stamps == {e \in d.recentTimestamps : Recent(e, t)}
  IN [d EXCEPT !.usedNonces = nonces, !.recentTimestamps = stamps,
               !.noncesReplaced = (nonces # d.usedNonces),
               !.timestampsReplaced = (stamps # d.recentTimestamps)]

isFromTo(d, b) == d.fromUserId = b.fromUserId /\ d.toUserId = b.toUserId
isToFrom(d, b) == d.toUserId = b.fromUserId /\ d.fromUserId = b.toUserId

expectedSequence(d, b) ==
  IF isFromTo(d, b) THEN d.sequenceFromTo + 1 ELSE d.sequenceToFrom + 1

(* A comparison that treats an absent sequence number as the number 0. *)
AbsentNumberIsStale(d, b) == b.sequenceNumber < expectedSequence(d, b)

(* sequenceNumber < expectedSequence *)
SequenceTooOld(d, b) == b.hasSeq /\ b.sequenceNumber < expectedSequence(d, b)

(* A sequence update that does not tell the directions apart. *)
UpdateBothCounters(d, b) ==
  IF ~b.hasSeq THEN d
  ELSE [d EXCEPT !.sequenceFromTo = b.sequenceNumber, !.fromToSet = TRUE,
                 !.sequenceToFrom = b.sequenceNumber, !.toFromSet = TRUE]

(* Both branches of the sequence update store the received number. *)
UpdateSequence(d, b) ==
  IF ~b.hasSeq THEN d
  ELSE IF isFromTo(d, b)
    THEN [d EXCEPT !.sequenceFromTo = b.sequenceNumber, !.fromToSet = TRUE]
    ELSE [d EXCEPT !.sequenceToFrom = b.sequenceNumber, !.toFromSet = TRUE]

nonceExists(d, b) == \E entry \in d.usedNonces : entry.nonce = b.nonce

NonceEntry(b, ts, t) == [nonce |-> b.nonce, timestamp |-> ts, createdAt |-> t]

(* sequenceDoc.usedNonces.push({...}) *)
PushNonce(d, b, ts, t) ==
  IF b.nonce = "" THEN d
  ELSE [d EXCEPT !.usedNonces = @ \cup {NonceEntry(b, ts, t)},
                 !.noncesPushed = @ \cup {NonceEntry(b, ts, t)}]

Abs(x) == IF x < 0 THEN -x ELSE x

(* timeDiff > TIMESTAMP_WINDOW *)
TimestampOutside(ts, t) == Abs(t - ts) > TIMESTAMP_WINDOW

TimestampEntry(ts, t) == [timestamp |-> ts, createdAt |-> t]

(* sequenceDoc.recentTimestamps.push({...}) *)
PushTimestamp(d, ts, t) ==
  [d EXCEPT !.recentTimestamps = @ \cup {TimestampEntry(ts, t)},
            !.timestampsPushed = @ \cup {TimestampEntry(ts, t)}]

(* The checks with the nonce comparison ahead of the sequence comparison. *)
ChecksNonceFirst(d, b, ts, t) ==
  IF ~isFromTo(d, b) /\ ~isToFrom(d, b)
    THEN [valid |-> FALSE, reason |-> PairMismatch, doc |-> d]
  ELSE IF b.nonce # "" /\ nonceExists(d, b)
    THEN [valid |-> FALSE, reason |-> DuplicateNonce, doc |-> d]
  ELSE IF SequenceTooOld(d, b)
    THEN [valid |-> FALSE, reason |-> SeqTooOld, doc |-> d]
  ELSE IF TimestampOutside(ts, t)
    THEN [valid |-> FALSE, reason |-> BadTimestamp,
          doc |-> PushNonce(UpdateSequence(d, b), b, ts, t)]
  ELSE [valid |-> TRUE, reason |-> "",
        doc |-> PushTimestamp(PushNonce(UpdateSequence(d, b), b, ts, t), ts, t)]

(* validateReplayProtection between the save() of cleanupOldEntries and the
   final save(): the checks in the order of the code, on the in-memory
   document d, at server time t. ts is the timestamp argument, which is
   never falsy (sendMessage passes timestamp || Date.now()). *)
Checks(d, b, ts, t) ==
  IF ~isFromTo(d, b) /\ ~isToFrom(d, b)
    THEN [valid |-> FALSE, reason |-> PairMismatch, doc |-> d]
  ELSE IF SequenceTooOld(d, b)
    THEN [valid |-> FALSE, reason |-> SeqTooOld, doc |-> d]
  ELSE IF b.nonce # "" /\ nonceExists(UpdateSequence(d, b), b)
    THEN [valid |-> FALSE, reason |-> DuplicateNonce, doc |-> UpdateSequence(d, b)]
  ELSE IF TimestampOutside(ts, t)
    THEN [valid |-> FALSE, reason |-> BadTimestamp,
          doc |-> PushNonce(UpdateSequence(d, b), b, ts, t)]
  ELSE [valid |-> TRUE, reason |-> "",
        doc |-> PushTimestamp(PushNonce(UpdateSequence(d, b), b, ts, t), ts, t)]

(* document.save(): whether the write succeeds. An insert fails on the
   unique index of exchangeId; an update that replaces an array carries the
   condition __v = loaded version. *)
ArraysReplaced(d) == d.noncesReplaced \/ d.timestampsReplaced
ArraysTouched(d) == ArraysReplaced(d) \/ d.noncesPushed # {} \/ d.timestampsPushed # {}

SaveOk(store, ex, d) ==
  IF d.isNew THEN ex \notin DOMAIN store
  ELSE ArraysReplaced(d) => store[ex].v = d.v

(* document.save(): the collection after a successful write of the
   modified paths of d. *)
SaveWrite(store, ex, d) ==
  IF d.isNew THEN store @@ (ex :> Stored(d))
  ELSE [store EXCEPT ![ex] =
          [@ EXCEPT !.sequenceFromTo = IF d.fromToSet THEN d.sequenceFromTo ELSE @,
                    !.sequenceToFrom = IF d.toFromSet THEN d.sequenceToFrom ELSE @,
                    !.usedNonces = IF d.noncesReplaced THEN d.usedNonces
                                   ELSE @ \cup d.noncesPushed,
                    !.recentTimestamps = IF d.timestampsReplaced THEN d.recentTimestamps
                                         ELSE @ \cup d.timestampsPushed,
                    !.v = IF ArraysTouched(d) THEN @ + 1 ELSE @]]

(* The in-memory document after a successful save(). *)
Saved(d) ==
  [d EXCEPT !.isNew = FALSE,
            !.v = IF ~d.isNew /\ ArraysTouched(d) THEN @ + 1 ELSE @,
            !.fromToSet = FALSE, !.toFromSet = FALSE,
            !.noncesReplaced = FALSE, !.timestampsReplaced = FALSE,
            !.noncesPushed = {}, !.timestampsPushed = {}]

---------------------------------------------------------------------------
(* The handler of POST /messages/send, one action per await. *)

NoDoc == NewSequenceDoc("", "")
NoReq == [id |-> 0, body |-> Body("", "", "", FALSE, 0, "", 0), ts |-> 0,
          startLen |-> 0, overl |-> {}, failOpen |-> FALSE, tv |-> 0,
          fault |-> ""]

(* The catch block of validateReplayProtection: what it returns when a
   storage operation has thrown. *)
FailClosed == [valid |-> FALSE, reason |-> ValidationError]
Caught == [valid |-> TRUE, reason |-> ValidationError]

(* The storage operations of validateReplayProtection that the environment
   of this scenario lets fail (a database that is unreachable or errs). *)
MayFail(op) == op \in scenario.faults

InValidation(q) == pc[q] \in {"findOne", "cleanupSave", "finalSave"}

(* A handler that ends without any response. *)
DropSilently(p, status, error, failOpen, tv) ==
  /\ done' = done
  /\ pc' = [pc EXCEPT ![p] = "idle"]
  /\ req' = [req EXCEPT ![p] = NoReq]
  /\ sequenceDoc' = [sequenceDoc EXCEPT ![p] = NoDoc]

(* The response is sent and the connection is free again. *)
Respond(p, status, error, failOpen, tv) ==
  /\ done' = Append(done, [id |-> req[p].id, body |-> req[p].body, status |-> status,
                           error |-> error, startLen |-> req[p].startLen,
                           overl |-> req[p].overl, failOpen |-> failOpen, tv |-> tv,
                           fault |-> req[p].fault])
  /\ pc' = [pc EXCEPT ![p] = "idle"]
  /\ req' = [req EXCEPT ![p] = NoReq]
  /\ sequenceDoc' = [sequenceDoc EXCEPT ![p] = NoDoc]

(* sendMessage up to the first await of validateReplayProtection (a body
   with the required fields, of two existing users). Without exchangeId
   the validation is skipped. Connections are interchangeable: a request
   arrives on the first free one. *)
sendMessage(p) ==
  /\ pc[p] = "idle"
  /\ \A q \in Procs : q < p => pc[q] # "idle"
  /\ issued < scenario.requests
  /\ \E b \in scenario.pool \cup Posted :
       /\ req' = [req EXCEPT ![p] =
                    [id |-> issued + 1, body |-> b,
                     ts |-> IF b.timestamp # 0 THEN b.timestamp ELSE now,
                     startLen |-> Len(done),
                     overl |-> {req[q].id : q \in {r \in Procs : InValidation(r)}},
                     failOpen |-> FALSE, tv |-> now, fault |-> ""]]
       /\ pc' = [pc EXCEPT ![p] = IF b.exchangeId # "" THEN "findOne" ELSE "saveMessage"]
  /\ issued' = issued + 1
  /\ UNCHANGED <<now, ticks, scenario, db, messages, sequenceDoc, done, kxVars>>

(* The storage operation op of request p has thrown: the catch block
   returns, and sendMessage goes on according to the returned verdict. *)
Thrown(p, op) ==
  IF Caught.valid
    THEN /\ pc' = [pc EXCEPT ![p] = "saveMessage"]
         /\ req' = [req EXCEPT ![p].failOpen = TRUE, ![p].tv = now, ![p].fault = op]
         /\ UNCHANGED <<sequenceDoc, done>>
    ELSE /\ done' = Append(done, [id |-> req[p].id, body |-> req[p].body, status |-> 400,
                                  error |-> Caught.reason, startLen |-> req[p].startLen,
                                  overl |-> req[p].overl, failOpen |-> FALSE, tv |-> now,
                                  fault |-> op])
         /\ pc' = [pc EXCEPT ![p] = "idle"]
         /\ req' = [req EXCEPT ![p] = NoReq]
         /\ sequenceDoc' = [sequenceDoc EXCEPT ![p] = NoDoc]

(* MessageSequence.findOne resolves; the document is created in memory if
   absent; cleanupOldEntries filters it and issues its save(). If findOne
   rejects, the catch block answers. *)
findOne(p) ==
  /\ pc[p] = "findOne"
  /\ \/ /\ LET b == req[p].body
               d == IF b.exchangeId \in DOMAIN db THEN Loaded(db[b.exchangeId])
                    ELSE NewSequenceDoc(b.fromUserId, b.toUserId)
           IN sequenceDoc' = [sequenceDoc EXCEPT ![p] = cleanupOldEntries(d, now)]
        /\ pc' = [pc EXCEPT ![p] = "cleanupSave"]
        /\ UNCHANGED <<req, done>>
     \/ /\ MayFail("findOne")
        /\ Thrown(p, "findOne")
  /\ UNCHANGED <<now, ticks, scenario, issued, db, messages, kxVars>>

(* The save() of cleanupOldEntries resolves. If it rejects, the catch block
   returns valid: true. Otherwise the checks run; a rejection is answered
   with 400, an acceptance issues the final save(). *)
cleanupSave(p) ==
  /\ pc[p] = "cleanupSave"
  /\ LET b == req[p].body
         d == sequenceDoc[p]
     IN \/ IF ~SaveOk(db, b.exchangeId, d)
             THEN /\ Thrown(p, "cleanupSave")
                  /\ UNCHANGED db
             ELSE LET c == Checks(Saved(d), b, req[p].ts, now)
                  IN /\ db' = SaveWrite(db, b.exchangeId, d)
                     /\ IF c.valid
                          THEN /\ pc' = [pc EXCEPT ![p] = "finalSave"]
                               /\ req' = [req EXCEPT ![p].tv = now]
                               /\ sequenceDoc' = [sequenceDoc EXCEPT ![p] = c.doc]
                               /\ UNCHANGED done
                          ELSE Respond(p, 400, c.reason, FALSE, now)
        \/ /\ MayFail("cleanupSave")
           /\ Thrown(p, "cleanupSave")
           /\ UNCHANGED db
  /\ UNCHANGED <<now, ticks, scenario, issued, messages, kxVars>>

(* The final sequenceDoc.save() resolves: validateReplayProtection returns
   valid: true and sendMessage issues message.save(). *)
finalSave(p) ==
  /\ pc[p] = "finalSave"
  /\ LET b == req[p].body
         d == sequenceDoc[p]
     IN \/ IF ~SaveOk(db, b.exchangeId, d)
             THEN /\ Thrown(p, "finalSave")
                  /\ UNCHANGED db
             ELSE /\ db' = SaveWrite(db, b.exchangeId, d)
                  /\ sequenceDoc' = [sequenceDoc EXCEPT ![p] = Saved(d)]
                  /\ pc' = [pc EXCEPT ![p] = "saveMessage"]
                  /\ UNCHANGED <<req, done>>
        \/ /\ MayFail("finalSave")
           /\ Thrown(p, "finalSave")
           /\ UNCHANGED db
  /\ UNCHANGED <<now, ticks, scenario, issued, messages, kxVars>>

(* message.save() resolves: the Message record is stored, 201 is sent. *)
saveMessage(p) ==
  /\ pc[p] = "saveMessage"
  /\ messages' = Append(messages, req[p].body)
  /\ Respond(p, 201, "", req[p].failOpen, req[p].tv)
  /\ UNCHANGED <<now, ticks, scenario, issued, db, kxVars>>

(* Time passes. The clock of the model is coarse (its steps are minutes):
   the awaits of a handler take no time on it, so it advances between
   requests. *)
Tick ==
  /\ ticks < scenario.ticks
  /\ \A p \in Procs : pc[p] = "idle"
  /\ \A u \in Users : call[u].op = "idle"
  /\ \E step \in scenario.steps : now' = now + step
  /\ ticks' = ticks + 1
  /\ UNCHANGED <<scenario, replayVars, kxVars>>

---------------------------------------------------------------------------
(* Part II: the authenticated key exchange *)

KX_TTL == 3600                          \* seconds a KeyExchange record lives
SESSION_KEY_LIFETIME == 24 * ONE_HOUR   \* expiry of a stored session key
EPHEMERAL_KEY_LIFETIME == 2 * ONE_HOUR  \* expiry of a stored ephemeral pair

InvalidInitiatorSignature == "Invalid signature from initiator"
PrivateKeyNotFound == "Private key not found for user"
InvalidResponderSignature == "Invalid signature from responder"
KeyConfirmationFailed == "Key confirmation failed"
EphemeralKeyMissing == "Ephemeral key pair not found"
NotFound == "Key exchange not found"
AlreadyProcessed == "Key exchange already processed"
InvalidStatus == "Invalid key exchange status"
EphemeralKeyExpired == "Ephemeral key pair expired"
ServerError == "Server error"
Ok == "ok"

ExchangeIds == <<"x1", "x2", "x3">>

(* The canonical messages of the two signatures: JSON.stringify with the
   sorted key list as replacer gives the listed fields in key order. *)
CanonicalInit(m) ==
  <<"ephemeralPublicKey", m.ephemeralPublicKey, "fromUserId", m.fromUserId,
    "nonce", m.nonce, "timestamp", m.timestamp, "toUserId", m.toUserId>>
CanonicalResponse(m) ==
  <<"ephemeralPublicKey", m.ephemeralPublicKey, "exchangeId", m.exchangeId,
    "keyConfirmation", m.keyConfirmation, "nonce", m.nonce,
    "timestamp", m.timestamp>>

(* RSA-PSS: a signature binds the signed bytes to the holder of the private
   key; verification under a public key succeeds for exactly that pair. *)
NoSignature == [by |-> "", message |-> <<>>]
(* The identity private key of a user, as getPrivateKey reads it from the
   local store. *)
getPrivateKey(username) == [username |-> username, keyType |-> "private"]
(* A local store in which every lookup of an identity key succeeds. *)
EveryoneHasKey(username) == TRUE
(* request.result of getPrivateKey: whether the local store of the user
   holds an identity key (else getPrivateKey rejects, and signMessage and
   its caller rethrow). *)
HasPrivateKey(username) == username \in scenario.identities
signMessage(message, username) == [by |-> username, message |-> message]
(* A verifier that accepts whatever it is given. *)
AcceptAnySignature(message, signature, owner) == TRUE
verifySignature(message, signature, owner) ==
  signature.by = owner /\ signature.message = message

(* An ephemeral key pair is named by its private key, a positive number;
   the exported public key of private key k is the number -k, so that the
   two are never the same value. *)
ExposeKey(privateKey) == privateKey
exportPublicKey(privateKey) == 0 - privateKey
(* ECDH: both sides derive the same bits from their private key and the
   other's public key, and from no other pair. *)
deriveSharedSecret(privateKey, publicKey) == {privateKey, 0 - publicKey}
(* HKDF over the secret with the salt and info string of the code. *)
deriveSessionKey(sharedSecret, fromUserId, toUserId, nonce) ==
  [secret |-> sharedSecret,
   info |-> <<"E2EE-SessionKey", fromUserId, toUserId, nonce>>]
NoSessionKey == [secret |-> {}, info |-> <<>>]
(* HMAC-SHA256 of the confirmation message under the session key. *)
createKeyConfirmation(sessionKey, nonce) ==
  [key |-> sessionKey, message |-> <<"KeyConfirmation", nonce>>]
NoKeyConfirmation == [key |-> NoSessionKey, message |-> <<>>]
(* Comparisons of the confirmation tag that skip the key. *)
AcceptAnyKeyConfirmation(sessionKey, nonce, hmac) == TRUE
CompareConfirmationMessage(sessionKey, nonce, hmac) ==
  hmac.message = <<"KeyConfirmation", nonce>>
verifyKeyConfirmation(sessionKey, nonce, hmac) ==
  hmac = createKeyConfirmation(sessionKey, nonce)

(* A KeyExchange document. A key, nonce or timestamp of 0 is an unset
   field. *)
KeyExchange(id, m, signature, t) ==
  [exchangeId |-> id, fromUserId |-> m.fromUserId, toUserId |-> m.toUserId,
   initiatorEphemeralPublicKey |-> m.ephemeralPublicKey,
   initiatorSignature |-> signature,
   timestamp |-> m.timestamp, nonce |-> m.nonce,
   responderEphemeralPublicKey |-> 0, responderSignature |-> NoSignature,
   keyConfirmation |-> NoKeyConfirmation,
   responseTimestamp |-> 0, responseNonce |-> 0,
   confirmed |-> FALSE, status |-> "pending",
   createdAt |-> t, completedAt |-> 0]

NoMessage ==
  [exchangeId |-> "", ephemeralPublicKey |-> 0, fromUserId |-> "",
   toUserId |-> "", nonce |-> 0, timestamp |-> 0,
   keyConfirmation |-> NoKeyConfirmation]
NoFacts ==
  [altered |-> FALSE, verified |-> FALSE, initiatorSigOk |-> FALSE,
   responderSigOk |-> FALSE, ephemeralOk |-> FALSE, tagOk |-> FALSE,
   derived |-> FALSE,
   stored |-> FALSE, posted |-> FALSE, wrote |-> FALSE, late |-> FALSE]
NoCall ==
  [op |-> "idle", pc |-> "idle", exchangeId |-> "", message |-> NoMessage,
   signature |-> NoSignature, privateKey |-> 0, sessionKey |-> NoSessionKey,
   peer |-> "", facts |-> NoFacts]

Removed(f, k) == [x \in DOMAIN f \ {k} |-> f[x]]
Put(f, k, v) == [x \in DOMAIN f \cup {k} |-> IF x = k THEN v ELSE f[x]]

(* The call of user u returns or throws: it is logged with its outcome. *)
Finish(u, c, result) ==
  /\ kxDone' = Append(kxDone, [op |-> c.op, by |-> u, exchangeId |-> c.exchangeId,
                               result |-> result, sessionKey |-> c.sessionKey,
                               privateKey |-> c.privateKey,
                               message |-> c.message, facts |-> c.facts])
  /\ call' = [call EXCEPT ![u] = NoCall]

Expired(e) == now >= kx[e].createdAt + KX_TTL * 1000
Started == Len(kxDone) + Cardinality({u \in Users : call[u].op # "idle"})
(* The number of exchanges initiated so far. *)
Initiated ==
  Cardinality({i \in 1..Len(kxDone) :
                 kxDone[i].op = "initiate" /\ kxDone[i].facts.posted})
    + Cardinality({u \in Users : call[u].op = "initiate"})
(* The number of records the relay has created so far. *)
Created ==
  Cardinality({i \in 1..Len(kxDone) :
                 kxDone[i].op = "initiate" /\ kxDone[i].facts.posted})
    + Cardinality({u \in Users : call[u].op = "initiate" /\ call[u].pc = "store"})

(* Client: initiateKeyExchange up to its POST. The ephemeral key pair and
   the nonce are fresh random values. signMessage loads the identity key
   first: if the store has none, the call throws before the POST, and the
   ephemeral key pair it generated is dropped with its stack frame. *)
initiateKeyExchange(u, to) ==
  /\ call[u].op = "idle"
  /\ Started < scenario.calls
  /\ fresh + 2 <= scenario.fresh
  /\ <<u, to>> \in scenario.pairs
  /\ LET message == [NoMessage EXCEPT !.ephemeralPublicKey = exportPublicKey(fresh + 1),
                                      !.fromUserId = u, !.toUserId = to,
                                      !.nonce = fresh + 2, !.timestamp = now]
         c == [NoCall EXCEPT !.op = "initiate", !.message = message, !.peer = to,
                             !.privateKey = fresh + 1]
     IN IF ~HasPrivateKey(u)
        THEN /\ Finish(u, c, PrivateKeyNotFound)
             /\ UNCHANGED <<signed, outbox>>
        ELSE /\ Initiated < scenario.exchanges
             /\ call' = [call EXCEPT ![u] =
                           [c EXCEPT !.pc = "post",
                                     !.signature = signMessage(CanonicalInit(message), u),
                                     !.facts.posted = TRUE]]
             /\ signed' = signed \cup {<<u, CanonicalInit(message)>>}
             /\ outbox' = outbox \cup
                  {Request("/key-exchange/initiate",
                           [ephemeralPublicKey |-> message.ephemeralPublicKey,
                            fromUserId |-> u, nonce |-> fresh + 2, timestamp |-> now,
                            toUserId |-> to,
                            signature |-> signMessage(CanonicalInit(message), u)])}
             /\ UNCHANGED kxDone
  /\ fresh' = fresh + 2
  /\ UNCHANGED <<now, ticks, scenario, replayVars, sequences, crypto, kx,
                 ephemeralKeys, sessionKeys, tampered>>

(* Relay: POST /initiate creates the record under a new random id. *)
relayInitiate(u) ==
  /\ call[u].op = "initiate" /\ call[u].pc = "post"
  /\ LET id == ExchangeIds[Created + 1]
         c == call[u]
     IN /\ kx' = Put(kx, id, KeyExchange(id, c.message, c.signature, now))
        /\ call' = [call EXCEPT ![u].pc = "store", ![u].exchangeId = id,
                                ![u].facts.wrote = TRUE]
  /\ UNCHANGED <<now, ticks, scenario, replayVars, clientVars, fresh, ephemeralKeys,
                 sessionKeys, kxDone, tampered, signed>>

(* Client: the initiator keeps its ephemeral key pair for the completion. *)
storeEphemeralKeyPair(u) ==
  /\ call[u].op = "initiate" /\ call[u].pc = "store"
  /\ LET c == [call[u] EXCEPT !.facts.stored = TRUE]
     IN /\ ephemeralKeys' =
             [ephemeralKeys EXCEPT ![u] =
                Put(@, c.exchangeId, [privateKey |-> c.privateKey,
                                      expiresAt |-> now + EPHEMERAL_KEY_LIFETIME])]
        /\ Finish(u, c, Ok)
  /\ UNCHANGED <<now, ticks, scenario, replayVars, clientVars, kx, fresh, sessionKeys,
                 tampered, signed>>

(* Client: respondToKeyExchange up to its POST, on the record the page has
   just fetched; toUserId is the id the page passes for the responder. *)
respondToKeyExchange(u, e, toUserId) ==
  /\ call[u].op = "idle"
  /\ Started < scenario.calls
  /\ fresh + 2 <= scenario.fresh
  /\ e \in DOMAIN kx
  /\ u \in scenario.responders
  /\ LET x == kx[e]
         initMessage == [NoMessage EXCEPT
                           !.ephemeralPublicKey = x.initiatorEphemeralPublicKey,
                           !.fromUserId = x.fromUserId, !.nonce = x.nonce,
                           !.timestamp = x.timestamp, !.toUserId = toUserId]
         isValid == verifySignature(CanonicalInit(initMessage),
                                    x.initiatorSignature, x.fromUserId)
         privateKey == fresh + 1
         nonce == fresh + 2
         sharedSecret == deriveSharedSecret(privateKey, x.initiatorEphemeralPublicKey)
         sessionKey == deriveSessionKey(sharedSecret, x.fromUserId, toUserId, nonce)
         keyConfirmation == createKeyConfirmation(sessionKey, nonce)
         responseMessage == [NoMessage EXCEPT
                               !.exchangeId = e,
                               !.ephemeralPublicKey = exportPublicKey(privateKey),
                               !.keyConfirmation = keyConfirmation,
                               !.timestamp = now, !.nonce = nonce]
         c == [NoCall EXCEPT !.op = "respond", !.exchangeId = e,
                             !.peer = x.fromUserId,
                             !.facts.altered =
                               <<x.fromUserId, CanonicalInit(initMessage)>> \notin signed,
                             !.facts.verified = TRUE,
                             !.facts.late = Expired(e)]
     IN IF ~isValid
        THEN /\ Finish(u, c, InvalidInitiatorSignature)
             /\ UNCHANGED <<fresh, signed, outbox>>
        ELSE IF ~HasPrivateKey(u)
        THEN /\ Finish(u, [c EXCEPT !.privateKey = privateKey,
                                    !.sessionKey = sessionKey,
                                    !.facts.derived = TRUE], PrivateKeyNotFound)
             /\ fresh' = fresh + 2
             /\ UNCHANGED <<signed, outbox>>
        ELSE /\ call' = [call EXCEPT ![u] =
                           [c EXCEPT !.pc = "post", !.message = responseMessage,
                                     !.privateKey = privateKey,
                                     !.sessionKey = sessionKey,
                                     !.signature = signMessage(CanonicalResponse(responseMessage), u),
                                     !.facts.derived = TRUE, !.facts.posted = TRUE]]
             /\ signed' = signed \cup {<<u, CanonicalResponse(responseMessage)>>}
             /\ fresh' = fresh + 2
             /\ outbox' = outbox \cup
                  {Request("/key-exchange/respond",
                           [exchangeId |-> e,
                            ephemeralPublicKey |-> responseMessage.ephemeralPublicKey,
                            keyConfirmation |-> keyConfirmation,
                            timestamp |-> now, nonce |-> nonce,
                            signature |-> signMessage(CanonicalResponse(responseMessage), u)])}
             /\ UNCHANGED kxDone
  /\ UNCHANGED <<now, ticks, scenario, replayVars, sequences, crypto, kx,
                 ephemeralKeys, sessionKeys, tampered>>

(* Relay: POST /respond, from the lookup to the status check. *)
relayRespondFind(u) ==
  /\ call[u].op = "respond" /\ call[u].pc = "post"
  /\ LET c == call[u]
     IN IF c.exchangeId \notin DOMAIN kx THEN Finish(u, c, NotFound)
        ELSE IF kx[c.exchangeId].status # "pending" THEN Finish(u, c, AlreadyProcessed)
        ELSE /\ call' = [call EXCEPT ![u].pc = "save"]
             /\ UNCHANGED kxDone
  /\ UNCHANGED <<now, ticks, scenario, replayVars, clientVars, kx, fresh, ephemeralKeys,
                 sessionKeys, tampered, signed>>

(* Relay: POST /respond, the save of the modified record and the answer. *)
relayRespondSave(u) ==
  /\ call[u].op = "respond" /\ call[u].pc = "save"
  /\ LET c == call[u]
         e == c.exchangeId
     IN IF e \notin DOMAIN kx
        THEN /\ Finish(u, c, ServerError)
             /\ UNCHANGED kx
        ELSE /\ kx' = [kx EXCEPT ![e] =
                         [@ EXCEPT !.responderEphemeralPublicKey = c.message.ephemeralPublicKey,
                                   !.responderSignature = c.signature,
                                   !.keyConfirmation = c.message.keyConfirmation,
                                   !.responseTimestamp = c.message.timestamp,
                                   !.responseNonce = c.message.nonce,
                                   !.status = "responded"]]
             /\ call' = [call EXCEPT ![u].pc = "store", ![u].facts.wrote = TRUE]
             /\ UNCHANGED kxDone
  /\ UNCHANGED <<now, ticks, scenario, replayVars, clientVars, fresh, ephemeralKeys,
                 sessionKeys, tampered, signed>>

(* Client: the responder stores the session key after the relay's answer. *)
storeResponderSessionKey(u) ==
  /\ call[u].op = "respond" /\ call[u].pc = "store"
  /\ LET c == [call[u] EXCEPT !.facts.stored = TRUE]
     IN /\ sessionKeys' =
             [sessionKeys EXCEPT ![u] =
                Put(@, c.exchangeId, [sessionKey |-> c.sessionKey, userId |-> c.peer,
                                      expiresAt |-> now + SESSION_KEY_LIFETIME])]
        /\ Finish(u, c, Ok)
  /\ UNCHANGED <<now, ticks, scenario, replayVars, clientVars, kx, fresh, ephemeralKeys,
                 tampered, signed>>

(* Client: completeKeyExchange up to its POST, on the record the page has
   just fetched and found responded. *)
completeKeyExchange(u, e) ==
  /\ call[u].op = "idle"
  /\ Started < scenario.calls
  /\ e \in DOMAIN kx
  /\ kx[e].status = "responded"
  /\ LET x == kx[e]
         nonce == IF x.responseNonce # 0 THEN x.responseNonce ELSE x.nonce
         responseTimestamp == IF x.responseTimestamp # 0 THEN x.responseTimestamp
                              ELSE IF x.timestamp # 0 THEN x.timestamp ELSE now
         found == e \in DOMAIN ephemeralKeys[u]
         unexpired == found /\ ~(ephemeralKeys[u][e].expiresAt < now)
         privateKey == IF found THEN ephemeralKeys[u][e].privateKey ELSE 0
         responseMessage == [NoMessage EXCEPT
                               !.exchangeId = e,
                               !.ephemeralPublicKey = x.responderEphemeralPublicKey,
                               !.keyConfirmation = x.keyConfirmation,
                               !.timestamp = responseTimestamp, !.nonce = nonce]
         isValid == verifySignature(CanonicalResponse(responseMessage),
                                    x.responderSignature, x.toUserId)
         sharedSecret == deriveSharedSecret(privateKey, x.responderEphemeralPublicKey)
         sessionKey == deriveSessionKey(sharedSecret, x.fromUserId, x.toUserId, nonce)
         confirmationValid == verifyKeyConfirmation(sessionKey, nonce, x.keyConfirmation)
         c == [NoCall EXCEPT
                 !.op = "complete", !.exchangeId = e, !.peer = x.toUserId,
                 !.message = responseMessage,
                 !.facts.late = Expired(e),
                 !.facts.ephemeralOk = unexpired,
                 !.facts.verified = unexpired,
                 !.facts.altered =
                   <<x.toUserId, CanonicalResponse(responseMessage)>> \notin signed,
                 !.facts.initiatorSigOk =
                   (/\ x.initiatorSignature.by = x.fromUserId
                    /\ x.initiatorSignature.message =
                         CanonicalInit([NoMessage EXCEPT
                           !.ephemeralPublicKey = x.initiatorEphemeralPublicKey,
                           !.fromUserId = x.fromUserId, !.nonce = x.nonce,
                           !.timestamp = x.timestamp, !.toUserId = x.toUserId])),
                 !.facts.responderSigOk =
                   (/\ x.responderSignature.by = x.toUserId
                    /\ x.responderSignature.message = CanonicalResponse(responseMessage)),
                 !.facts.tagOk =
                   (/\ unexpired
                    /\ x.keyConfirmation.key = sessionKey
                    /\ x.keyConfirmation.message = <<"KeyConfirmation", nonce>>)]
     IN IF ~found
        THEN /\ Finish(u, c, EphemeralKeyMissing)
             /\ UNCHANGED <<ephemeralKeys, sessionKeys, outbox>>
        ELSE IF ~unexpired
        THEN /\ Finish(u, c, EphemeralKeyExpired)
             /\ ephemeralKeys' = [ephemeralKeys EXCEPT ![u] = Removed(@, e)]
             /\ UNCHANGED <<sessionKeys, outbox>>
        ELSE IF ~isValid
        THEN /\ Finish(u, c, InvalidResponderSignature)
             /\ UNCHANGED <<ephemeralKeys, sessionKeys, outbox>>
        ELSE IF ~confirmationValid
        THEN /\ Finish(u, [c EXCEPT !.facts.derived = TRUE, !.sessionKey = sessionKey],
                       KeyConfirmationFailed)
             /\ UNCHANGED <<ephemeralKeys, sessionKeys, outbox>>
        ELSE /\ sessionKeys' =
                  [sessionKeys EXCEPT ![u] =
                     Put(@, e, [sessionKey |-> sessionKey, userId |-> x.toUserId,
                                expiresAt |-> now + SESSION_KEY_LIFETIME])]
             /\ call' = [call EXCEPT ![u] =
                           [c EXCEPT !.pc = "post", !.sessionKey = sessionKey,
                                     !.facts.derived = TRUE, !.facts.stored = TRUE,
                                     !.facts.posted = TRUE]]
             /\ outbox' = outbox \cup
                  {Request("/key-exchange/confirm",
                           [exchangeId |-> e, confirmed |-> TRUE])}
             /\ UNCHANGED <<ephemeralKeys, kxDone>>
  /\ UNCHANGED <<now, ticks, scenario, replayVars, sequences, crypto, kx, fresh,
                 tampered, signed>>

(* Relay: POST /confirm, from the lookup to the status check. *)
relayConfirmFind(u) ==
  /\ call[u].op = "complete" /\ call[u].pc = "post"
  /\ LET c == call[u]
     IN IF c.exchangeId \notin DOMAIN kx THEN Finish(u, c, NotFound)
        ELSE IF kx[c.exchangeId].status # "responded" THEN Finish(u, c, InvalidStatus)
        ELSE /\ call' = [call EXCEPT ![u].pc = "save"]
             /\ UNCHANGED kxDone
  /\ UNCHANGED <<now, ticks, scenario, replayVars, clientVars, kx, fresh, ephemeralKeys,
                 sessionKeys, tampered, signed>>

(* Relay: POST /confirm, the save of the modified record and the answer. *)
relayConfirmSave(u) ==
  /\ call[u].op = "complete" /\ call[u].pc = "save"
  /\ LET c == call[u]
         e == c.exchangeId
     IN IF e \notin DOMAIN kx
        THEN /\ Finish(u, c, ServerError)
             /\ UNCHANGED kx
        ELSE /\ kx' = [kx EXCEPT ![e] = [@ EXCEPT !.status = "confirmed",
                                                  !.confirmed = TRUE,
                                                  !.completedAt = now]]
             /\ Finish(u, [c EXCEPT !.facts.wrote = TRUE], Ok)
  /\ UNCHANGED <<now, ticks, scenario, replayVars, clientVars, fresh, ephemeralKeys,
                 sessionKeys, tampered, signed>>

(* The TTL index on createdAt: the database removes a record at some moment
   after its lifetime has passed, whatever its status. *)
ttlDelete(e) ==
  /\ e \in DOMAIN kx
  /\ Expired(e)
  /\ kx' = Removed(kx, e)
  /\ UNCHANGED <<now, ticks, scenario, replayVars, clientVars, fresh, ephemeralKeys,
                 sessionKeys, call, kxDone, tampered, signed>>

(* An attacker in the path between a client and the relay alters one field
   of an exchange as the other client will receive it. It holds no user's
   private key: the values it can put are fresh ones of its own, another
   user's id, or a confirmation tag under a key of its own. *)
TamperFields ==
  {"initiatorEphemeralPublicKey", "responderEphemeralPublicKey",
   "responseNonce", "keyConfirmation", "fromUserId", "toUserId"}
Tampered(x, field, value, user) ==
  CASE field = "initiatorEphemeralPublicKey" ->
         [x EXCEPT !.initiatorEphemeralPublicKey = exportPublicKey(value)]
    [] field = "responderEphemeralPublicKey" ->
         [x EXCEPT !.responderEphemeralPublicKey = exportPublicKey(value)]
    [] field = "responseNonce" -> [x EXCEPT !.responseNonce = value]
    [] field = "keyConfirmation" ->
         [x EXCEPT !.keyConfirmation =
            createKeyConfirmation(
              deriveSessionKey(deriveSharedSecret(value, x.initiatorEphemeralPublicKey),
                               x.fromUserId, x.toUserId, x.responseNonce),
              x.responseNonce)]
    [] field = "fromUserId" -> [x EXCEPT !.fromUserId = user]
    [] field = "toUserId" -> [x EXCEPT !.toUserId = user]
Tamper(e, field, user) ==
  /\ tampered < scenario.tampers
  /\ fresh + 1 <= scenario.fresh
  /\ e \in DOMAIN kx
  /\ field \in {"responderEphemeralPublicKey", "responseNonce", "keyConfirmation"}
       => kx[e].status # "pending"
  /\ kx' = [kx EXCEPT ![e] = Tampered(@, field, fresh + 1, user)]
  /\ kx'[e] # kx[e]
  /\ fresh' = fresh + 1
  /\ tampered' = tampered + 1
  /\ UNCHANGED <<now, ticks, scenario, replayVars, clientVars, ephemeralKeys, sessionKeys,
                 call, kxDone, signed>>

---------------------------------------------------------------------------
(* Part III: the encryption of messages *)

IV_LENGTH == 12                         \* bytes of a random IV
tagLength == 16                         \* bytes of the AES-GCM tag
MaxLen == 2                             \* code units of a plaintext

DecryptionFailed ==
  "Failed to decrypt message. The message may be corrupted or the key is incorrect."

(* A JavaScript string is a sequence of UTF-16 code units. Five stand for
   the kinds the conversions distinguish: an ASCII letter, U+FEFF (the byte
   order mark), U+FFFD (the replacement character) and the two halves of
   the surrogate pair of U+10000. *)
CodeUnits == {"a", "feff", "fffd", "d800", "dc00"}
Byte(n) == [kind |-> "plain", v |-> n]

(* TextEncoder.encode: UTF-8; a surrogate pair becomes one four-byte
   sequence, a surrogate without its partner becomes U+FFFD. *)
RECURSIVE TextEncode(_)
TextEncode(str) ==
  IF str = <<>> THEN <<>>
  ELSE IF Len(str) >= 2 /\ str[1] = "d800" /\ str[2] = "dc00"
    THEN <<Byte(240), Byte(144), Byte(128), Byte(128)>>
           \o TextEncode(SubSeq(str, 3, Len(str)))
  ELSE (CASE str[1] = "a" -> <<Byte(97)>>
          [] str[1] = "feff" -> <<Byte(239), Byte(187), Byte(191)>>
          [] OTHER -> <<Byte(239), Byte(191), Byte(189)>>)
         \o TextEncode(SubSeq(str, 2, Len(str)))

StartsWith(bytes, prefix) ==
  /\ Len(bytes) >= Len(prefix)
  /\ \A i \in 1..Len(prefix) : bytes[i].v = prefix[i]

(* The UTF-8 decoder, not fatal: a byte that starts no sequence of the
   model's repertoire decodes to U+FFFD. *)
RECURSIVE Utf8Decode(_)
Utf8Decode(bytes) ==
  IF bytes = <<>> THEN <<>>
  ELSE IF StartsWith(bytes, <<240, 144, 128, 128>>)
    THEN <<"d800", "dc00">> \o Utf8Decode(SubSeq(bytes, 5, Len(bytes)))
  ELSE IF StartsWith(bytes, <<239, 187, 191>>)
    THEN <<"feff">> \o Utf8Decode(SubSeq(bytes, 4, Len(bytes)))
  ELSE IF StartsWith(bytes, <<239, 191, 189>>)
    THEN <<"fffd">> \o Utf8Decode(SubSeq(bytes, 4, Len(bytes)))
  ELSE IF bytes[1].v = 97
    THEN <<"a">> \o Utf8Decode(SubSeq(bytes, 2, Len(bytes)))
  ELSE <<"fffd">> \o Utf8Decode(SubSeq(bytes, 2, Len(bytes)))

(* new TextDecoder().decode: ignoreBOM is false, so a byte order mark at
   the start of the input is not part of the decoded string. *)
TextDecode(bytes) ==
  IF StartsWith(bytes, <<239, 187, 191>>)
    THEN Utf8Decode(SubSeq(bytes, 4, Len(bytes)))
    ELSE Utf8Decode(bytes)

(* Base64 text. btoa writes the canonical text of the bytes. Of the other
   texts, atob decodes those that differ from a canonical text in ignored
   characters only (white space, missing padding, the unused bits of the
   last character) to the same bytes, and throws on the rest. *)
btoa(bytes) == [bytes |-> bytes, form |-> "canonical"]
Decodable(text) == text.form \in {"canonical", "lenient"}
atob(text) == text.bytes

(* crypto.getRandomValues: n bytes of the random draw named seed. *)
getRandomValues(n, seed) ==
  [i \in 1..n |-> [kind |-> "random", v |-> seed, at |-> i]]

(* AES-GCM. Counter mode makes byte i of the ciphertext a function of the
   key, the IV, i and byte i of the plaintext; the tag is a function of the
   key, the IV and the whole ciphertext. subtle.encrypt returns the
   ciphertext followed by the tag. *)
GcmTag(key, iv, ciphertext) ==
  [j \in 1..tagLength |->
     [kind |-> "tag", v |-> 0, at |-> j, key |-> key, iv |-> iv,
      over |-> ciphertext]]
AesGcmEncrypt(key, iv, bytes) ==
  LET ciphertext ==
        [i \in 1..Len(bytes) |->
           [kind |-> "cipher", v |-> bytes[i].v, at |-> i, key |-> key, iv |-> iv]]
  IN ciphertext \o GcmTag(key, iv, ciphertext)

NoPlainBytes == [ok |-> FALSE, bytes |-> <<>>]
(* The keystream taken off: a byte of another key, IV or position gives
   an unrelated byte. *)
Unmasked(key, iv, ciphertext) ==
  [i \in 1..Len(ciphertext) |->
     LET c == ciphertext[i]
     IN IF c.kind = "cipher" /\ c.key = key /\ c.iv = iv /\ c.at = i
          THEN Byte(c.v) ELSE Byte(0)]
(* Decryption that does not compare the tag. *)
DecryptUnauthenticated(key, iv, data) ==
  IF Len(data) < tagLength THEN NoPlainBytes
  ELSE [ok |-> TRUE,
        bytes |-> Unmasked(key, iv, SubSeq(data, 1, Len(data) - tagLength))]
(* subtle.decrypt: the last tagLength bytes of the data are the tag; the
   call rejects unless it is the tag of the rest under the key and IV. *)
AesGcmDecrypt(key, iv, data) ==
  IF Len(data) < tagLength THEN NoPlainBytes
  ELSE LET ciphertext == SubSeq(data, 1, Len(data) - tagLength)
           tag == SubSeq(data, Len(data) - tagLength + 1, Len(data))
       IN IF tag = GcmTag(key, iv, ciphertext)
            THEN [ok |-> TRUE, bytes |-> Unmasked(key, iv, ciphertext)]
            ELSE NoPlainBytes

(* encryptMessage, with the random draw of its IV as a parameter. *)
encryptMessage(plaintext, sessionKey, seed) ==
  LET iv == getRandomValues(IV_LENGTH, seed)
      plaintextBytes == TextEncode(plaintext)
      encryptedArray == AesGcmEncrypt(sessionKey, iv, plaintextBytes)
      actualCiphertext == SubSeq(encryptedArray, 1, Len(encryptedArray) - tagLength)
      tag == SubSeq(encryptedArray, Len(encryptedArray) - tagLength + 1,
                    Len(encryptedArray))
  IN [ciphertext |-> btoa(actualCiphertext), iv |-> btoa(iv), tag |-> btoa(tag)]

NoPlaintext == [ok |-> FALSE, plaintext |-> <<>>, error |-> DecryptionFailed]
(* decryptMessage: every failure inside is rethrown as one error. *)
decryptMessage(ciphertext, iv, tag, sessionKey) ==
  IF ~(Decodable(ciphertext) /\ Decodable(iv) /\ Decodable(tag)) THEN NoPlaintext
  ELSE LET encryptedData == atob(ciphertext) \o atob(tag)
           decryptedData == AesGcmDecrypt(sessionKey, atob(iv), encryptedData)
       IN IF ~decryptedData.ok THEN NoPlaintext
          ELSE [ok |-> TRUE, plaintext |-> TextDecode(decryptedData.bytes),
                error |-> ""]

(* One run of the two functions: the plaintext, the key and the random
   draw are the inputs; message is what encryptMessage returned as it
   reaches decryptMessage, sent is what encryptMessage returned. *)
NoEncrypted == [ciphertext |-> btoa(<<>>), iv |-> btoa(<<>>), tag |-> btoa(<<>>)]
NoCrypto ==
  [phase |-> "none", plaintext |-> <<>>, key |-> NoSessionKey, seed |-> 0,
   sent |-> NoEncrypted, message |-> NoEncrypted, alterations |-> 0,
   result |-> NoPlaintext]

Encrypt ==
  /\ crypto.phase = "input"
  /\ LET encrypted == encryptMessage(crypto.plaintext, crypto.key, crypto.seed)
     IN crypto' = [crypto EXCEPT !.phase = "encrypted", !.sent = encrypted,
                                 !.message = encrypted]
  /\ UNCHANGED <<now, ticks, scenario, replayVars, kx, fresh, ephemeralKeys,
                 sessionKeys, call, kxDone, tampered, signed, outbox, sequences>>

(* What may happen to a field between the two functions: a byte changed,
   the last byte lost, the text rewritten with ignored characters, or the
   text made undecodable; and the boundary between ciphertext and tag
   moved by one byte. *)
Alterations == {"first", "last", "drop", "lenient", "garble"}
Boundaries == {"forward", "back"}
Changed(bytes, i) == [bytes EXCEPT ![i].v = 255 - @]
AlteredText(text, how) ==
  CASE how = "first" -> [text EXCEPT !.bytes = Changed(@, 1)]
    [] how = "last" -> [text EXCEPT !.bytes = Changed(@, Len(@))]
    [] how = "drop" -> [text EXCEPT !.bytes = SubSeq(@, 1, Len(@) - 1)]
    [] how = "lenient" -> [text EXCEPT !.form = "lenient"]
    [] how = "garble" -> [text EXCEPT !.form = "invalid"]
Alter(field, how) ==
  /\ crypto.phase = "encrypted"
  /\ crypto.alterations < scenario.tampers
  /\ how \in {"first", "last", "drop"} => crypto.message[field].bytes # <<>>
  /\ how \in {"lenient", "garble"} => crypto.message[field].form = "canonical"
  /\ crypto' = [crypto EXCEPT !.message[field] = AlteredText(@, how),
                              !.alterations = @ + 1]
  /\ UNCHANGED <<now, ticks, scenario, replayVars, kx, fresh, ephemeralKeys,
                 sessionKeys, call, kxDone, tampered, signed, outbox, sequences>>
MoveBoundary(direction) ==
  /\ crypto.phase = "encrypted"
  /\ crypto.alterations < scenario.tampers
  /\ LET c == crypto.message.ciphertext.bytes
         t == crypto.message.tag.bytes
     IN IF direction = "forward"
          THEN /\ t # <<>>
               /\ crypto' = [crypto EXCEPT
                    !.message.ciphertext.bytes = Append(c, Head(t)),
                    !.message.tag.bytes = Tail(t),
                    !.alterations = @ + 1]
          ELSE /\ c # <<>>
               /\ crypto' = [crypto EXCEPT
                    !.message.ciphertext.bytes = SubSeq(c, 1, Len(c) - 1),
                    !.message.tag.bytes = <<c[Len(c)]>> \o t,
                    !.alterations = @ + 1]
  /\ UNCHANGED <<now, ticks, scenario, replayVars, kx, fresh, ephemeralKeys,
                 sessionKeys, call, kxDone, tampered, signed, outbox, sequences>>

Decrypt ==
  /\ crypto.phase = "encrypted"
  /\ crypto' = [crypto EXCEPT
       !.phase = "decrypted",
       !.result = decryptMessage(crypto.message.ciphertext, crypto.message.iv,
                                 crypto.message.tag, crypto.key)]
  /\ UNCHANGED <<now, ticks, scenario, replayVars, kx, fresh, ephemeralKeys,
                 sessionKeys, call, kxDone, tampered, signed, outbox, sequences>>

(* The sending of encrypted messages *)

SessionKeyNotFound == "Session key not found"
SessionKeyExpired == "Session key expired"
ClientNonces == <<"c1", "c2", "c3">>

(* The expiry test of getSessionKey on a stored record. *)
NeverExpires(sessionData) == FALSE
IsExpired(sessionData) == sessionData.expiresAt < now
(* getSessionKey: what it answers from the store of user u, and whether it
   deletes the record. *)
getSessionKey(u, sessionId) ==
  IF sessionId \notin DOMAIN sessionKeys[u]
    THEN [error |-> SessionKeyNotFound, sessionKey |-> NoSessionKey, delete |-> FALSE]
  ELSE IF IsExpired(sessionKeys[u][sessionId])
    THEN [error |-> SessionKeyExpired, sessionKey |-> NoSessionKey, delete |-> TRUE]
  ELSE [error |-> "", sessionKey |-> sessionKeys[u][sessionId].sessionKey,
        delete |-> FALSE]

(* getNextSequenceNumber on the store of one user: the record after the
   call and the number returned. *)
getNextSequenceNumber(store, exchangeId, fromUserId, toUserId) ==
  LET found == IF exchangeId \in DOMAIN store THEN store[exchangeId]
               ELSE [exchangeId |-> exchangeId, fromUserId |-> fromUserId,
                     toUserId |-> toUserId, sequenceFromTo |-> 0,
                     sequenceToFrom |-> 0]
      fromTo == found.fromUserId = fromUserId /\ found.toUserId = toUserId
      toFrom == found.fromUserId = toUserId /\ found.toUserId = fromUserId
      sequenceData == IF ~fromTo /\ ~toFrom
                        THEN [found EXCEPT !.fromUserId = fromUserId,
                                           !.toUserId = toUserId,
                                           !.sequenceFromTo = 0,
                                           !.sequenceToFrom = 0]
                        ELSE found
      currentSequence == IF fromTo THEN sequenceData.sequenceFromTo
                         ELSE sequenceData.sequenceToFrom
      nextSequence == currentSequence + 1
  IN [sequenceNumber |-> nextSequence,
      sequenceData |-> IF fromTo
                         THEN [sequenceData EXCEPT !.sequenceFromTo = nextSequence]
                         ELSE [sequenceData EXCEPT !.sequenceToFrom = nextSequence]]

(* A call of getNextSequenceNumber on the store of one user: the number it
   returns and the store after it. If openDB rejects, the catch returns
   Date.now() and the store is left as it was. *)
nextSequenceNumber(store, exchangeId, fromUserId, toUserId, opened) ==
  LET next == getNextSequenceNumber(store, exchangeId, fromUserId, toUserId)
  IN IF opened
       THEN [sequenceNumber |-> next.sequenceNumber,
             store |-> Put(store, exchangeId, next.sequenceData)]
       ELSE [sequenceNumber |-> now, store |-> store]
(* Whether the environment lets openDB succeed or fail for one call. *)
MayOpen(opened) == opened \/ MayFail("openDB")

(* Client: one call of getNextSequenceNumber by user u for a message to
   toUserId on exchange e, logged with the number it returned. *)
SequenceCall(u, e, toUserId) ==
  /\ call[u].op = "idle"
  /\ Started < scenario.calls
  /\ \E opened \in BOOLEAN :
       /\ MayOpen(opened)
       /\ LET next == nextSequenceNumber(sequences[u], e, u, toUserId, opened)
          IN /\ sequences' = [sequences EXCEPT ![u] = next.store]
             /\ kxDone' = Append(kxDone,
                            [op |-> "sequence", by |-> u, exchangeId |-> e,
                             toUserId |-> toUserId, opened |-> opened, at |-> now,
                             sequenceNumber |-> next.sequenceNumber])
  /\ UNCHANGED <<now, ticks, scenario, replayVars, kx, fresh, ephemeralKeys,
                 sessionKeys, call, tampered, signed, outbox, crypto>>

(* Client: sendEncryptedMessage of user u to toUserId on exchange e. The
   call is logged with what getSessionKey found at the time. *)
sendEncryptedMessage(u, toUserId, plaintext, e) ==
  /\ call[u].op = "idle"
  /\ Started < scenario.calls
  /\ fresh + 1 <= scenario.fresh
  /\ Cardinality(MessageRequests) < Len(ClientNonces)
  /\ \E opened \in {b \in BOOLEAN : MayOpen(b)} :
       LET got == getSessionKey(u, e)
         encrypted == encryptMessage(plaintext, got.sessionKey, fresh + 1)
         next == nextSequenceNumber(sequences[u], e, u, toUserId, opened)
         nonce == ClientNonces[Cardinality(MessageRequests) + 1]
         entry == [op |-> "send", by |-> u, exchangeId |-> e,
                   result |-> IF got.error = "" THEN Ok ELSE got.error,
                   sessionKey |-> got.sessionKey, privateKey |-> 0,
                   message |-> NoMessage, facts |-> NoFacts, at |-> now, plaintext |-> plaintext,
                   found |-> e \in DOMAIN sessionKeys[u],
                   sessionData |-> IF e \in DOMAIN sessionKeys[u]
                                     THEN sessionKeys[u][e]
                                     ELSE [sessionKey |-> NoSessionKey, userId |-> "",
                                           expiresAt |-> 0]]
     IN /\ kxDone' = Append(kxDone, entry)
        /\ IF got.error # ""
             THEN /\ sessionKeys' = IF got.delete
                                      THEN [sessionKeys EXCEPT ![u] = Removed(@, e)]
                                      ELSE sessionKeys
                  /\ UNCHANGED <<fresh, sequences, outbox>>
             ELSE /\ fresh' = fresh + 1
                  /\ sequences' = [sequences EXCEPT ![u] = next.store]
                  /\ outbox' = outbox \cup
                       {Request("/messages/send",
                          [exchangeId |-> e, fromUserId |-> u, toUserId |-> toUserId,
                           hasSeq |-> TRUE, sequenceNumber |-> next.sequenceNumber,
                           nonce |-> nonce, timestamp |-> now,
                           ciphertext |-> encrypted.ciphertext, iv |-> encrypted.iv,
                           tag |-> encrypted.tag, messageType |-> "text"])}
                  /\ UNCHANGED sessionKeys
  /\ UNCHANGED <<now, ticks, scenario, replayVars, kx, ephemeralKeys, call,
                 tampered, signed, crypto>>

---------------------------------------------------------------------------
(* Specifications *)

(* The requests of the main scenario: one exchange between u1 and u2, one
   direction, every sequence number up to MaxSeq, two nonces, the client's
   clock equal to the server's. *)
MainPool ==
  {Body("e1", "u1", "u2", TRUE, s, n, 0) : s \in 1..MaxSeq, n \in Nonces}

Scenario(pool, requests, nticks, steps) ==
  [pool |-> pool, requests |-> requests, ticks |-> nticks, steps |-> steps,
   calls |-> 0, fresh |-> 0, pairs |-> {}, exchanges |-> 0,
   responders |-> {}, tampers |-> 0, faults |-> {}, identities |-> Users]

InitState(scn) ==
  /\ now = ONE_HOUR
  /\ ticks = 0
  /\ scenario = scn
  /\ issued = 0
  /\ db = <<>>
  /\ messages = <<>>
  /\ pc = [p \in Procs |-> "idle"]
  /\ req = [p \in Procs |-> NoReq]
  /\ sequenceDoc = [p \in Procs |-> NoDoc]
  /\ done = <<>>
  /\ kx = <<>>
  /\ fresh = 0
  /\ ephemeralKeys = [u \in Users |-> <<>>]
  /\ sessionKeys = [u \in Users |-> <<>>]
  /\ call = [u \in Users |-> NoCall]
  /\ kxDone = <<>>
  /\ tampered = 0
  /\ signed = {}
  /\ outbox = {}
  /\ sequences = [u \in Users |-> <<>>]
InitScenario(scn) == InitState(scn) /\ crypto = NoCrypto

Init == InitScenario(Scenario(MainPool, MaxReqs, 1, {TIMESTAMP_WINDOW}))

Next ==
  \/ \E p \in Procs : sendMessage(p)
  \/ \E p \in Procs : findOne(p)
  \/ \E p \in Procs : cleanupSave(p)
  \/ \E p \in Procs : finalSave(p)
  \/ \E p \in Procs : saveMessage(p)
  \/ Tick

Spec == Init /\ [][Next]_vars

(* The retention scenario: messages without sequence numbers on one
   exchange, while the clock crosses the one-hour retention horizon. *)
RetentionPool == {Body("e1", "u1", "u2", FALSE, 0, n, 0) : n \in Nonces}
RetentionSteps == {ONE_HOUR - TIMESTAMP_WINDOW}

InitRetention ==
  InitScenario(Scenario(RetentionPool, MaxReqs + 1, MaxTicks, RetentionSteps))

SpecRetention == InitRetention /\ [][Next]_vars

(* The fault scenario: the requests of one sender on one exchange, while
   any storage operation of validateReplayProtection may fail. *)
FaultPool == {Body("e1", "u1", "u2", TRUE, s, "n1", 0) : s \in 1..MaxSeq}
StorageOperations == {"findOne", "cleanupSave", "finalSave"}

InitFaults ==
  InitScenario([Scenario(FaultPool, MaxReqs, 1, {TIMESTAMP_WINDOW})
                  EXCEPT !.faults = StorageOperations])

SpecFaults == InitFaults /\ [][Next]_vars

(* The scenario of the checks: timestamps at and just beyond both ends of
   the window, a sender outside the pair of the exchange, a body without
   exchangeId and one without sequence number, while the clock may advance
   by a millisecond. *)
CheckStamps ==
  {ONE_HOUR - TIMESTAMP_WINDOW - 1, ONE_HOUR - TIMESTAMP_WINDOW,
   ONE_HOUR + TIMESTAMP_WINDOW, ONE_HOUR + TIMESTAMP_WINDOW + 1}
CheckPool ==
  {Body("e1", "u1", "u2", TRUE, s, "n1", ts) : s \in 1..(MaxSeq - 1),
                                               ts \in CheckStamps \cup {0}}
    \cup {Body("e1", "u1", "u3", TRUE, 1, "n2", 0),
          Body("", "u1", "u2", TRUE, 1, "n1", 0),
          Body("e1", "u1", "u2", FALSE, 0, "n2", 0)}

InitChecks == InitScenario(Scenario(CheckPool, MaxReqs, 1, {1}))

SpecChecks == InitChecks /\ [][Next]_vars

(* The scenario of the channels: two exchanges, both directions of the
   pair of the first, a sender outside that pair, bodies with and without
   sequence number, a stale timestamp, while the clock may cross the
   one-hour retention horizon. *)
StaleStamp == ONE_HOUR - TIMESTAMP_WINDOW - 1
ChannelPool ==
  {Body("e1", "u1", "u2", TRUE, s, "n1", 0) : s \in 1..(MaxSeq - 1)}
    \cup {Body("e1", "u2", "u1", TRUE, 1, "n2", 0),
          Body("e1", "u1", "u3", TRUE, 1, "n2", 0),
          Body("e2", "u1", "u2", TRUE, 1, "n1", 0),
          Body("e1", "u1", "u2", FALSE, 0, "n1", 0),
          Body("e1", "u1", "u2", TRUE, MaxSeq - 1, "n2", StaleStamp)}

InitChannels == InitScenario(Scenario(ChannelPool, MaxReqs, 1, {ONE_HOUR}))

SpecChannels == InitChannels /\ [][Next]_vars

(* The key-exchange scenario: u1 initiates towards u2; u2 and u3 may
   respond; any user may try to complete; one alteration by the attacker;
   the clock may pass the lifetime of the record. *)
MaxCalls == 4
MaxTampers == 1
MaxExchanges == 1
KxScenario ==
  [pool |-> {}, requests |-> 0, ticks |-> 1, steps |-> {KX_TTL * 1000},
   calls |-> MaxCalls, fresh |-> 2 * MaxCalls + MaxTampers,
   pairs |-> {<<"u1", "u2">>}, exchanges |-> MaxExchanges,
   responders |-> {"u2", "u3"}, tampers |-> MaxTampers, faults |-> {}, identities |-> Users]

InitKx == InitScenario(KxScenario)

NextKx ==
  \/ \E u, to \in Users : initiateKeyExchange(u, to)
  \/ \E u \in Users : relayInitiate(u)
  \/ \E u \in Users : storeEphemeralKeyPair(u)
  \/ \E u \in Users, e \in DOMAIN kx, to \in Users : respondToKeyExchange(u, e, to)
  \/ \E u \in Users : relayRespondFind(u)
  \/ \E u \in Users : relayRespondSave(u)
  \/ \E u \in Users : storeResponderSessionKey(u)
  \/ \E u \in Users, e \in DOMAIN kx : completeKeyExchange(u, e)
  \/ \E u \in Users : relayConfirmFind(u)
  \/ \E u \in Users : relayConfirmSave(u)
  \/ \E e \in DOMAIN kx : ttlDelete(e)
  \/ \E e \in DOMAIN kx, field \in TamperFields, user \in Users : Tamper(e, field, user)
  \/ Tick

SpecKx == InitKx /\ [][NextKx]_vars

(* The exchange among honest parties: the three client functions, the
   relay and the clock, without an attacker on the relay's records. *)
NextExchange ==
  \/ \E u, to \in Users : initiateKeyExchange(u, to)
  \/ \E u \in Users : relayInitiate(u)
  \/ \E u \in Users : storeEphemeralKeyPair(u)
  \/ \E u \in Users, e \in DOMAIN kx : respondToKeyExchange(u, e, u)
  \/ \E u \in Users : relayRespondFind(u)
  \/ \E u \in Users : relayRespondSave(u)
  \/ \E u \in Users : storeResponderSessionKey(u)
  \/ \E u \in Users, e \in DOMAIN kx : completeKeyExchange(u, e)
  \/ \E u \in Users : relayConfirmFind(u)
  \/ \E u \in Users : relayConfirmSave(u)
  \/ \E e \in DOMAIN kx : ttlDelete(e)
  \/ Tick

(* The scenario of one honest exchange between u1 and u2. *)
ExchangeScenario == [KxScenario EXCEPT !.tampers = 0, !.fresh = 2 * MaxCalls]
InitExchange == InitScenario(ExchangeScenario)
SpecExchange == InitExchange /\ [][NextExchange]_vars

(* The scenario of the missing identity key: u1 and u3 both try to start
   an exchange with u2, and the local store of u1 holds no identity key. *)
IdentityScenario ==
  [KxScenario EXCEPT !.pairs = {<<"u1", "u2">>, <<"u3", "u2">>},
                     !.responders = {"u2"}, !.tampers = 0,
                     !.fresh = 2 * MaxCalls,
                     !.identities = {"u2", "u3"}]
InitIdentity == InitScenario(IdentityScenario)
SpecIdentity == InitIdentity /\ [][NextExchange]_vars

(* The runs of encryptMessage and decryptMessage: every plaintext of up to
   MaxLen code units under each of two session keys and two random draws,
   with up to MaxAlterations alterations between the two functions. *)
MaxAlterations == 2
Plaintexts == UNION {[1..n -> CodeUnits] : n \in 0..MaxLen}
TestKeys ==
  {deriveSessionKey(deriveSharedSecret(k, exportPublicKey(k + 1)), "u1", "u2", k + 2)
     : k \in {1, 4}}
InitCrypto ==
  /\ InitState([Scenario({}, 0, 0, {}) EXCEPT !.tampers = MaxAlterations])
  /\ crypto \in {[NoCrypto EXCEPT !.phase = "input", !.plaintext = p, !.key = k,
                                  !.seed = s]
                   : p \in Plaintexts, k \in TestKeys, s \in 1..2}
NextCrypto ==
  \/ Encrypt
  \/ \E field \in {"ciphertext", "iv", "tag"}, how \in Alterations : Alter(field, how)
  \/ \E direction \in Boundaries : MoveBoundary(direction)
  \/ Decrypt
SpecCrypto == InitCrypto /\ [][NextCrypto]_vars

(* The clients' scenario: u1 and u2 run one exchange and send each other
   messages through the relay, while the clock may pass the lifetimes of
   the stored keys. *)
MaxClientCalls == 4
MaxPosts == 1
ClientUsers == {"u1", "u2"}
ClientPlaintexts == {<<"a">>}
ClientScenario ==
  [pool |-> {}, requests |-> MaxPosts, ticks |-> MaxTicks,
   steps |-> {SESSION_KEY_LIFETIME, 1},
   calls |-> MaxClientCalls, fresh |-> 2 * MaxClientCalls,
   pairs |-> {<<"u1", "u2">>}, exchanges |-> MaxExchanges,
   responders |-> {"u2"}, tampers |-> 0, faults |-> {}, identities |-> Users]
InitClient == InitScenario(ClientScenario)
NextClient ==
  \/ \E u, to \in ClientUsers : initiateKeyExchange(u, to)
  \/ \E u \in Users : relayInitiate(u)
  \/ \E u \in Users : storeEphemeralKeyPair(u)
  \/ \E u \in ClientUsers, e \in DOMAIN kx : respondToKeyExchange(u, e, u)
  \/ \E u \in Users : relayRespondFind(u)
  \/ \E u \in Users : relayRespondSave(u)
  \/ \E u \in Users : storeResponderSessionKey(u)
  \/ \E u \in ClientUsers, e \in DOMAIN kx : completeKeyExchange(u, e)
  \/ \E u \in Users : relayConfirmFind(u)
  \/ \E u \in Users : relayConfirmSave(u)
  \/ \E e \in DOMAIN kx : ttlDelete(e)
  \/ \E u, to \in ClientUsers, plaintext \in ClientPlaintexts :
       /\ u # to
       /\ sendEncryptedMessage(u, to, plaintext, ExchangeIds[1])
  \/ \E p \in Procs : sendMessage(p)
  \/ \E p \in Procs : findOne(p)
  \/ \E p \in Procs : cleanupSave(p)
  \/ \E p \in Procs : finalSave(p)
  \/ \E p \in Procs : saveMessage(p)
  \/ Tick
SpecClient == InitClient /\ [][NextClient]_vars

(* The scenario of the sequence numbers: the calls of getNextSequenceNumber
   of two clients for one exchange id, to either of the other users, while
   openDB may fail and the clock may advance by a millisecond. *)
SequenceScenario ==
  [KxScenario EXCEPT !.tampers = 0, !.steps = {1}, !.faults = {"openDB"}]
InitSequence == InitScenario(SequenceScenario)
NextSequence ==
  \/ \E u \in ClientUsers :
       \E to \in Users \ {u} : SequenceCall(u, ExchangeIds[1], to)
  \/ Tick
SpecSequence == InitSequence /\ [][NextSequence]_vars

---------------------------------------------------------------------------
(* Properties of the replay protection *)

Accepted(r) == r.status = 201
Sequenced(r) == r.body.exchangeId # "" /\ r.body.hasSeq
SameDirection(a, b) ==
  /\ a.body.exchangeId = b.body.exchangeId
  /\ a.body.fromUserId = b.body.fromUserId
  /\ a.body.toUserId = b.body.toUserId
(* The executions of validateReplayProtection for a and b overlapped. *)
Overlapped(a, b) == a.id \in b.overl \/ b.id \in a.overl
Quiescent == \A p \in Procs : pc[p] = "idle"
(* The stored counter of the direction of body b. *)
StoredCounter(b) ==
  IF isFromTo(db[b.exchangeId], b) THEN db[b.exchangeId].sequenceFromTo
  ELSE db[b.exchangeId].sequenceToFrom
StoredNonces(ex) == {entry.nonce : entry \in db[ex].usedNonces}
(* The requests answered before request r arrived. *)
AnsweredBefore(r) == {done[i] : i \in 1..r.startLen}
(* The requests validateReplayProtection has returned valid for. *)
Validated ==
  {done[i].body : i \in {k \in 1..Len(done) : Accepted(done[k])}}
    \cup {req[p].body : p \in {q \in Procs : pc[q] = "saveMessage"}}

(* C1: of two sendMessage requests on one exchange and direction whose
   validations overlap, two with the same sequence number are never both
   accepted; and when N and N+1 are both accepted (and are the only
   requests), the stored counter ends at N+1 and both nonces are stored. *)
C1_NoDoubleAcceptNoLostUpdate ==
  \A i, j \in 1..Len(done) :
    LET a == done[i]
        b == done[j]
    IN (i # j /\ Sequenced(a) /\ Sequenced(b) /\ SameDirection(a, b)
          /\ Overlapped(a, b) /\ Accepted(a) /\ Accepted(b)) =>
         /\ a.body.sequenceNumber # b.body.sequenceNumber
         /\ (b.body.sequenceNumber = a.body.sequenceNumber + 1
               /\ Quiescent /\ Len(done) = 2) =>
              /\ StoredCounter(b.body) = b.body.sequenceNumber
              /\ {a.body.nonce, b.body.nonce} \subseteq StoredNonces(b.body.exchangeId)

(* C2: a message whose sequence number is at most the highest one accepted
   in its direction before it arrived is rejected as a stale sequence, and
   only such messages are: a number above every accepted one is never
   rejected as stale. *)
C2_StaleRejectedGapAccepted ==
  \A j \in 1..Len(done) :
    LET r == done[j]
    IN Sequenced(r) =>
         /\ (\E a \in AnsweredBefore(r) :
                /\ Accepted(a) /\ Sequenced(a) /\ SameDirection(a, r)
                /\ r.body.sequenceNumber <= a.body.sequenceNumber)
              => (r.status = 400 /\ r.error = SeqTooOld)
         /\ (r.status = 400 /\ r.error = SeqTooOld)
              => \E b \in Validated :
                   /\ b.hasSeq /\ b.exchangeId = r.body.exchangeId
                   /\ b.fromUserId = r.body.fromUserId /\ b.toUserId = r.body.toUserId
                   /\ r.body.sequenceNumber <= b.sequenceNumber

(* C3: once an accepted message has recorded a nonce for a channel, a later
   message on that channel with the same nonce, checked within one hour of
   the recording, is rejected as a duplicate nonce (unless an earlier check
   of the pair or of the sequence number has rejected it already). *)
C3_RecordedNonceRejected ==
  \A i, j \in 1..Len(done) :
    LET a == done[i]
        r == done[j]
    IN (i < j /\ a \in AnsweredBefore(r) /\ Accepted(a) /\ ~a.failOpen
          /\ a.body.exchangeId # "" /\ a.body.nonce # ""
          /\ r.body.exchangeId = a.body.exchangeId /\ r.body.nonce = a.body.nonce
          /\ r.tv - a.tv < ONE_HOUR
          /\ r.error \notin {PairMismatch, SeqTooOld}) =>
         (r.status = 400 /\ r.error = DuplicateNonce)

(* C4: once a message with exchange id, sequence number and nonce has been
   accepted and answered, the identical request submitted again is answered
   with 400 and stored no second time. *)
C4_ResubmissionRejected ==
  \A i, j \in 1..Len(done) :
    LET a == done[i]
        r == done[j]
    IN (i < j /\ a \in AnsweredBefore(r) /\ Accepted(a) /\ Sequenced(a)
          /\ a.body.nonce # "" /\ r.body = a.body) =>
         /\ r.status = 400
         /\ Cardinality({k \in 1..Len(messages) : messages[k] = a.body})
              <= Cardinality({k \in 1..Len(done) :
                     done[k].body = a.body /\ a \notin AnsweredBefore(done[k])})

(* C10: no step lowers a stored sequence counter. *)
C10_CounterNeverRolledBack ==
  [][\A ex \in DOMAIN db :
       /\ db'[ex].sequenceFromTo >= db[ex].sequenceFromTo
       /\ db'[ex].sequenceToFrom >= db[ex].sequenceToFrom]_vars

---------------------------------------------------------------------------
(* Properties of the key exchange *)

KxCalls == {kxDone[i] : i \in 1..Len(kxDone)}
Verifying(c) == c.op \in {"respond", "complete"} /\ c.facts.verified
SignatureInvalid(c) ==
  c.result = (IF c.op = "respond" THEN InvalidInitiatorSignature
              ELSE InvalidResponderSignature)
(* The initiator of exchange e and the responder it addressed. *)
InitiatedBy(e, i, r) ==
  \E c \in KxCalls : /\ c.op = "initiate" /\ c.exchangeId = e /\ c.result = Ok
                      /\ c.by = i /\ c.message.toUserId = r
Holds(u, e) == e \in DOMAIN sessionKeys[u]

(* C5: when the signed fields that reach the signature check of
   respondToKeyExchange or completeKeyExchange are not a message the claimed
   party signed, the call fails with the invalid-signature error, having
   derived nothing, stored no session key and sent nothing to the relay. *)
C5_AlteredSignedFieldRefused ==
  /\ \A c \in KxCalls :
       (Verifying(c) /\ c.facts.altered) =>
         /\ SignatureInvalid(c)
         /\ ~c.facts.derived /\ ~c.facts.stored /\ ~c.facts.posted /\ ~c.facts.wrote
  /\ \A u \in Users : Verifying(call[u]) => ~call[u].facts.altered
C5_Witness ==
  /\ \E c \in KxCalls : c.op = "respond" /\ c.facts.altered /\ SignatureInvalid(c)
  /\ \E c \in KxCalls : /\ c.op = "complete" /\ c.facts.verified /\ c.facts.altered
                          /\ SignatureInvalid(c)

(* C6: whenever the initiator of an exchange and the responder it addressed
   both hold a stored session key for that exchange id, the keys are equal. *)
C6_SessionKeysAgree ==
  \A e \in {ExchangeIds[n] : n \in 1..Len(ExchangeIds)} :
    \A i, r \in Users :
      (InitiatedBy(e, i, r) /\ Holds(i, e) /\ Holds(r, e)) =>
        sessionKeys[i][e].sessionKey = sessionKeys[r][e].sessionKey
C6_Witness ==
  \E e \in DOMAIN sessionKeys["u1"] :
    /\ InitiatedBy(e, "u1", "u2") /\ Holds("u2", e)
    /\ sessionKeys["u1"][e].sessionKey = sessionKeys["u2"][e].sessionKey
    /\ tampered > 0

(* C7, as claimed: a completeKeyExchange call on a responded exchange
   succeeds exactly when both stored signatures verify and the recomputed
   confirmation tag equals the stored one. *)
C7_ConfirmIffSignaturesAndTag ==
  \A c \in KxCalls :
    c.op = "complete" =>
      (c.result = Ok <=>
         (c.facts.initiatorSigOk /\ c.facts.responderSigOk /\ c.facts.tagOk))
(* C7, as the code has it: a completeKeyExchange call succeeds only if the
   caller's ephemeral key pair is available and unexpired, the responder's
   signature verifies and the recomputed confirmation tag equals the stored
   one; when all three hold it stores the session key and sends the confirm
   request, and it succeeds exactly when the relay accepts that request. *)
C7_ConfirmIffResponderSignatureTagAndRelay ==
  \A c \in KxCalls :
    c.op = "complete" =>
      LET checks == c.facts.ephemeralOk /\ c.facts.responderSigOk /\ c.facts.tagOk
      IN /\ c.result = Ok => checks
         /\ checks => /\ c.facts.stored /\ c.facts.posted
                       /\ c.result = Ok <=> c.facts.wrote
         /\ ~checks => ~c.facts.stored /\ ~c.facts.posted /\ ~c.facts.wrote
C7_Witness ==
  \E c \in KxCalls : c.op = "complete" /\ c.result = Ok /\ ~c.facts.initiatorSigOk

(* C8: the status of a stored exchange changes only from pending to
   responded and from responded to confirmed. *)
C8_StatusOnlyForward ==
  [][\A e \in DOMAIN kx \cap DOMAIN kx' :
       kx'[e].status # kx[e].status =>
         <<kx[e].status, kx'[e].status>> \in
           {<<"pending", "responded">>, <<"responded", "confirmed">>}]_vars

(* C9: a respond or complete call begun on an exchange whose TTL has
   elapsed fails and leaves the stored record as it was. *)
C9_ExpiredExchangeUnusable ==
  \A c \in KxCalls :
    (c.op \in {"respond", "complete"} /\ c.facts.late) =>
      c.result # Ok /\ ~c.facts.wrote

---------------------------------------------------------------------------
(* Properties of the relay's acceptance of messages *)

Answered == {done[i] : i \in 1..Len(done)}
StoredMessage(b) == \E k \in 1..Len(messages) : messages[k] = b

(* C11: whenever validateReplayProtection returns valid for a message of an
   exchange and sendMessage goes on to store it, the channel record in the
   database holds the message's sequence number as the counter of its
   direction, its nonce and its timestamp. *)
C11_AcceptedOnlyAfterPersisted ==
  [][\A p \in Procs :
       (pc[p] # "saveMessage" /\ pc'[p] = "saveMessage"
          /\ req'[p].body.exchangeId # "") =>
         LET b == req'[p].body
         IN /\ b.exchangeId \in DOMAIN db'
            /\ b.hasSeq =>
                 b.sequenceNumber =
                   (IF isFromTo(db'[b.exchangeId], b)
                    THEN db'[b.exchangeId].sequenceFromTo
                    ELSE db'[b.exchangeId].sequenceToFrom)
            /\ b.nonce # "" =>
                 \E entry \in db'[b.exchangeId].usedNonces : entry.nonce = b.nonce
            /\ \E entry \in db'[b.exchangeId].recentTimestamps :
                 entry.timestamp = req'[p].ts]_vars

(* C12: a request whose validation met a failing storage operation (the
   load, the purge save or the final save) is never rejected: validation
   returns valid, and the request is answered 201 with its message stored. *)
C12_StorageFailureFailsOpen ==
  /\ \A r \in Answered :
       r.fault # "" => r.status = 201 /\ StoredMessage(r.body)
  /\ \A p \in Procs : req[p].fault # "" => pc[p] = "saveMessage"
C12_Witness ==
  \A op \in StorageOperations :
    \E r \in Answered : r.fault = op /\ r.status = 201 /\ StoredMessage(r.body)

(* C13: a request reaches the storing of its message only out of
   validateReplayProtection, never past it. *)
C13_StoredOnlyAfterValidation ==
  [][\A p \in Procs :
       (pc[p] # "saveMessage" /\ pc'[p] = "saveMessage") => InValidation(p)]_vars

(* The timestamp validateReplayProtection was given for answered request r,
   and its distance from the server's time at the check. *)
TimestampOf(r) == IF r.body.timestamp # 0 THEN r.body.timestamp ELSE r.tv
TimeDiff(r) == Abs(r.tv - TimestampOf(r))

(* C14: a message of an exchange whose timestamp is more than
   TIMESTAMP_WINDOW away from the server's time, and which no earlier check
   has rejected, is rejected for its timestamp; and no message within the
   window, the boundary included, is rejected for its timestamp. *)
C14_TimestampWindow ==
  \A r \in Answered :
    r.body.exchangeId # "" =>
      /\ (TimeDiff(r) > TIMESTAMP_WINDOW
            /\ r.error \notin {PairMismatch, SeqTooOld, DuplicateNonce})
           => (r.status = 400 /\ r.error = BadTimestamp)
      /\ r.error = BadTimestamp => TimeDiff(r) > TIMESTAMP_WINDOW

RejectionReasons == {PairMismatch, SeqTooOld, DuplicateNonce, BadTimestamp}

(* C15: when the checks of validateReplayProtection reject the message of
   a request, the request is answered at once with status 400 and the
   reason of the check that failed, and no Message record is added; the
   Message collection holds one record per request answered 201 and none
   for a rejected one; and the four reasons are distinct. *)
C15_RejectionReported ==
  [][/\ \A p \in Procs :
          LET c == Checks(Saved(sequenceDoc[p]), req[p].body, req[p].ts, now)
          IN (pc[p] = "cleanupSave" /\ pc'[p] \notin {"cleanupSave", "saveMessage"}
                /\ ~c.valid) =>
               /\ Len(done') = Len(done) + 1
               /\ done'[Len(done')].id = req[p].id
               /\ done'[Len(done')].status = 400
               /\ done'[Len(done')].error = c.reason
               /\ c.reason \in RejectionReasons
               /\ messages' = messages
     /\ Len(messages') = Cardinality({i \in 1..Len(done') : done'[i].status = 201})
     /\ Len(done') + Cardinality({p \in Procs : pc'[p] # "idle"}) = issued'
     /\ Cardinality(RejectionReasons) = 4]_vars
C15_Witness ==
  \E a, b \in Answered :
    /\ a.status = 400 /\ b.status = 400
    /\ a.error \in RejectionReasons /\ b.error \in RejectionReasons
    /\ a.error # b.error
    /\ ~StoredMessage(a.body) /\ ~StoredMessage(b.body)

---------------------------------------------------------------------------
(* Properties of the encryption of messages *)

Decrypted == crypto.phase = "decrypted"
(* No surrogate stands without its partner. *)
WellFormed(str) ==
  \A i \in 1..Len(str) :
    /\ str[i] = "d800" => i < Len(str) /\ str[i + 1] = "dc00"
    /\ str[i] = "dc00" => i > 1 /\ str[i - 1] = "d800"
LeadingMark(str) == str # <<>> /\ str[1] = "feff"
(* The fields decode, and to the bytes encryptMessage produced: the same
   IV, and the same ciphertext followed by the same tag. *)
SameBytes(m, sent) ==
  /\ Decodable(m.ciphertext) /\ Decodable(m.iv) /\ Decodable(m.tag)
  /\ atob(m.iv) = atob(sent.iv)
  /\ atob(m.ciphertext) \o atob(m.tag) = atob(sent.ciphertext) \o atob(sent.tag)

(* C17, as stated: decryptMessage(encryptMessage(p, k), k) = p for every
   key k and plaintext p, and if the ciphertext, the IV or the tag differs
   in any way from what encryptMessage returned, decryptMessage fails with
   DecryptionFailed and yields no plaintext. *)
C17_RoundTripAndAnyAlterationFails ==
  Decrypted =>
    IF crypto.message = crypto.sent
      THEN crypto.result.ok /\ crypto.result.plaintext = crypto.plaintext
      ELSE crypto.result = NoPlaintext

(* C17, amended: decryptMessage succeeds exactly when its three fields are
   base64 texts that decode to the IV and to the ciphertext-then-tag bytes
   encryptMessage produced; it then returns the plaintext as UTF-8 carries
   it, which is p itself when p is well-formed UTF-16 and does not begin
   with U+FEFF; in every other case it fails with DecryptionFailed and
   yields no plaintext. *)
C17_RoundTripOfWellFormedAndAlteredBytesFail ==
  Decrypted =>
    /\ SameBytes(crypto.message, crypto.sent) =>
         /\ crypto.result.ok
         /\ crypto.result.plaintext = TextDecode(TextEncode(crypto.plaintext))
         /\ WellFormed(crypto.plaintext) /\ ~LeadingMark(crypto.plaintext)
              => crypto.result.plaintext = crypto.plaintext
    /\ ~SameBytes(crypto.message, crypto.sent) => crypto.result = NoPlaintext
C17_Witness ==
  /\ Decrypted
  /\ crypto.message = crypto.sent
  /\ Len(crypto.plaintext) = MaxLen
  /\ crypto.result.ok
  /\ crypto.result.plaintext = crypto.plaintext

---------------------------------------------------------------------------
(* Properties of the clients' secrets *)

Sends == {i \in 1..Len(kxDone) : kxDone[i].op = "send"}
(* The secrets the clients have held so far. *)
EphemeralPrivateKeys ==
  ({call[u].privateKey : u \in Users}
     \cup {kxDone[i].privateKey : i \in 1..Len(kxDone)}
     \cup UNION {{ephemeralKeys[u][e].privateKey : e \in DOMAIN ephemeralKeys[u]}
                   : u \in Users}) \ {0}
DerivedSessionKeys ==
  ({call[u].sessionKey : u \in Users}
     \cup {kxDone[i].sessionKey : i \in 1..Len(kxDone)}
     \cup UNION {{sessionKeys[u][e].sessionKey : e \in DOMAIN sessionKeys[u]}
                   : u \in Users}) \ {NoSessionKey}
IdentityPrivateKeys == {getPrivateKey(u) : u \in Users}
PlaintextBytes ==
  UNION {{TextEncode(kxDone[i].plaintext)[k]
            : k \in 1..Len(TextEncode(kxDone[i].plaintext))} : i \in Sends}

(* A key field, a signature or tag field, and a base64 field that carry
   none of the secrets. *)
CleanKey(k) == k \notin EphemeralPrivateKeys
CleanToken(t) == t \notin DerivedSessionKeys \cup IdentityPrivateKeys
CleanText(t) ==
  /\ t \notin DerivedSessionKeys \cup IdentityPrivateKeys
  /\ \A k \in 1..Len(t.bytes) :
       t.bytes[k].kind # "plain" /\ t.bytes[k] \notin PlaintextBytes
CleanRequest(r) ==
  CASE r.url = "/key-exchange/initiate" ->
         /\ CleanKey(r.body.ephemeralPublicKey) /\ CleanKey(r.body.nonce)
         /\ CleanToken(r.body.signature)
    [] r.url = "/key-exchange/respond" ->
         /\ CleanKey(r.body.ephemeralPublicKey) /\ CleanKey(r.body.nonce)
         /\ CleanToken(r.body.signature) /\ CleanToken(r.body.keyConfirmation)
    [] r.url = "/key-exchange/confirm" -> DOMAIN r.body = {"exchangeId", "confirmed"}
    [] r.url = "/messages/send" ->
         /\ CleanText(r.body.ciphertext) /\ CleanText(r.body.iv)
         /\ CleanText(r.body.tag)
         /\ DOMAIN r.body =
              {"exchangeId", "fromUserId", "toUserId", "hasSeq", "sequenceNumber",
               "nonce", "timestamp", "ciphertext", "iv", "tag", "messageType"}
CleanRecord(x) ==
  /\ CleanKey(x.initiatorEphemeralPublicKey) /\ CleanKey(x.responderEphemeralPublicKey)
  /\ CleanKey(x.nonce) /\ CleanKey(x.responseNonce)
  /\ CleanToken(x.initiatorSignature) /\ CleanToken(x.responderSignature)
  /\ CleanToken(x.keyConfirmation)

(* C16: no request that initiateKeyExchange, respondToKeyExchange,
   completeKeyExchange or sendEncryptedMessage sends to the relay carries
   an identity private key, an ephemeral private key, a session key or a
   byte of message plaintext in any of its fields (the ECDH shared secret
   enters a request only inside the session key that keys the confirmation
   tag and the cipher), and neither does any record or message the relay
   stores. *)
C16_NoSecretLeavesTheClient ==
  /\ \A r \in outbox : CleanRequest(r)
  /\ \A e \in DOMAIN kx : CleanRecord(kx[e])
  /\ \A k \in 1..Len(messages) :
       /\ CleanText(messages[k].ciphertext) /\ CleanText(messages[k].iv)
       /\ CleanText(messages[k].tag)
C16_Witness ==
  /\ {r.url : r \in outbox} =
       {"/key-exchange/initiate", "/key-exchange/respond", "/key-exchange/confirm",
        "/messages/send"}
  /\ \E e \in DOMAIN kx : kx[e].status = "confirmed"
  /\ \E k \in 1..Len(messages) : Len(messages[k].ciphertext.bytes) > 0
  /\ PlaintextBytes # {}
  /\ Cardinality(EphemeralPrivateKeys) = 2

---------------------------------------------------------------------------
(* Properties of the stored keys *)

SameSession(i, j) ==
  kxDone[i].by = kxDone[j].by /\ kxDone[i].exchangeId = kxDone[j].exchangeId
(* Call k has stored a session key for the exchange. *)
StoredSessionKey(k) ==
  kxDone[k].op \in {"respond", "complete"} /\ kxDone[k].facts.stored
(* What the logged call i of getSessionKey answered, given the record it
   found: the stored key up to the record's expiry, the expiry error after
   it, and then the not-found error until a key is stored again. *)
AnsweredByExpiry(i) ==
  LET r == kxDone[i]
  IN /\ ~r.found => r.result = SessionKeyNotFound
     /\ r.found /\ r.at <= r.sessionData.expiresAt =>
          r.result = Ok /\ r.sessionKey = r.sessionData.sessionKey
     /\ r.found /\ r.at > r.sessionData.expiresAt =>
          /\ r.result = SessionKeyExpired
          /\ r.sessionKey = NoSessionKey
          /\ \A j \in Sends :
               j > i /\ SameSession(i, j) =>
                 \/ kxDone[j].result = SessionKeyNotFound
                 \/ \E k \in (i + 1)..(j - 1) : SameSession(i, k) /\ StoredSessionKey(k)
(* A step that writes a session key record gives it 24 hours; a step in
   which getSessionKey answers the expiry error leaves no record. *)
StoredFor24Hours ==
  \A u \in Users : \A e \in DOMAIN sessionKeys'[u] :
    (e \notin DOMAIN sessionKeys[u] \/ sessionKeys'[u][e] # sessionKeys[u][e])
      => sessionKeys'[u][e].expiresAt = now + 24 * ONE_HOUR
RemovedOnExpiry ==
  (Len(kxDone') = Len(kxDone) + 1
     /\ kxDone'[Len(kxDone')].result = SessionKeyExpired)
    => LET r == kxDone'[Len(kxDone')]
       IN /\ r.exchangeId \in DOMAIN sessionKeys[r.by]
          /\ r.exchangeId \notin DOMAIN sessionKeys'[r.by]

(* C18: a session key record is stored with an expiry 24 hours after the
   storing; getSessionKey returns the stored key as long as the clock has
   not passed that expiry; once it has, getSessionKey fails with the expiry
   error instead of returning the key and removes the record, so that the
   calls after it fail as well. *)
C18_SessionKeyReturnedUntilExpiry ==
  /\ [](\A i \in Sends : AnsweredByExpiry(i))
  /\ [][StoredFor24Hours /\ RemovedOnExpiry]_vars
C18_Witness ==
  \E i, j \in Sends :
    /\ i < j /\ SameSession(i, j)
    /\ kxDone[i].result = SessionKeyExpired
    /\ kxDone[i].at = kxDone[i].sessionData.expiresAt + 1
    /\ kxDone[j].result = SessionKeyNotFound
    /\ kxDone[j].exchangeId \notin DOMAIN sessionKeys[kxDone[j].by]

(* C19: the ephemeral private key of an exchange is no longer in the local
   store once completeKeyExchange has succeeded for the exchange, and in
   any case once 2 hours have passed since the pair was stored. *)
C19_EphemeralKeyDiscarded ==
  /\ \A i \in 1..Len(kxDone) :
       kxDone[i].op = "complete" /\ kxDone[i].result = Ok
         => kxDone[i].exchangeId \notin DOMAIN ephemeralKeys[kxDone[i].by]
  /\ \A u \in Users : \A e \in DOMAIN ephemeralKeys[u] :
       now <= ephemeralKeys[u][e].expiresAt

(* C20: the TTL removes only records that were never confirmed: no step
   removes a confirmed record from the KeyExchange collection. *)
C20_ConfirmedNeverDeleted ==
  [][\A e \in DOMAIN kx : kx[e].status = "confirmed" => e \in DOMAIN kx']_vars

---------------------------------------------------------------------------
(* Properties of the channels of the replay protection *)

(* Request p is at the end of its cleanup save, and the step is its own. *)
Checking(p) == pc[p] = "cleanupSave" /\ pc'[p] # "cleanupSave"
(* The channel of request p existed when it was looked up, and the pair of
   the request is neither the recorded pair nor its reverse. *)
Mismatched(p) ==
  /\ req[p].body.exchangeId \in DOMAIN db
  /\ ~sequenceDoc[p].isNew
  /\ ~isFromTo(db[req[p].body.exchangeId], req[p].body)
  /\ ~isToFrom(db[req[p].body.exchangeId], req[p].body)
(* The step answers request p with 400 and the given reason. *)
RejectedWith(p, reason) ==
  /\ Len(done') = Len(done) + 1
  /\ done'[Len(done')].id = req[p].id
  /\ done'[Len(done')].status = 400
  /\ done'[Len(done')].error = reason

(* C21: a message on an existing channel whose pair is neither the recorded
   pair nor its reverse is rejected with the pair-mismatch reason, and its
   validation changes neither sequence counter nor the nonce set of the
   channel. *)
C21_MismatchRejectedChannelUntouched ==
  [][\A p \in Procs :
       (Checking(p) /\ Mismatched(p)) =>
         LET ex == req[p].body.exchangeId
         IN /\ RejectedWith(p, PairMismatch)
            /\ db'[ex].sequenceFromTo = db[ex].sequenceFromTo
            /\ db'[ex].sequenceToFrom = db[ex].sequenceToFrom
            /\ db'[ex].usedNonces = db[ex].usedNonces]_vars

(* The requests whose save() resolves in this step. *)
Saving(p) == pc[p] \in {"cleanupSave", "finalSave"} /\ pc'[p] # pc[p]
(* The counter of the direction opposite to that of body b is the same
   before and after the step. *)
OppositeCounterKept(ex, b) ==
  IF isFromTo(db[ex], b) THEN db'[ex].sequenceToFrom = db[ex].sequenceToFrom
  ELSE db'[ex].sequenceFromTo = db[ex].sequenceFromTo
(* The accepted messages of one channel. *)
ValidatedOn(ex) == {b \in Validated : b.exchangeId = ex}

(* C22: the validation of a message changes the state of its own channel
   only, and of the counters only the one of its direction: a step that
   changes or creates the document of an exchange is a save of a request of
   that exchange, it leaves the counter of the opposite direction as it was
   (zero in a created document), and no document disappears. Hence nonces
   and sequence numbers are judged per channel: a duplicate-nonce or
   stale-sequence rejection is due to an accepted message of the same
   exchange. *)
C22_OnlyOwnChannelAndDirectionChange ==
  /\ [][/\ DOMAIN db \subseteq DOMAIN db'
        /\ \A ex \in DOMAIN db' :
             IF ex \notin DOMAIN db
               THEN /\ \E p \in Procs : Saving(p) /\ req[p].body.exchangeId = ex
                    /\ db'[ex].sequenceFromTo = 0 /\ db'[ex].sequenceToFrom = 0
                    /\ db'[ex].usedNonces = {}
               ELSE db'[ex] # db[ex] =>
                      \E p \in Procs :
                        /\ Saving(p) /\ req[p].body.exchangeId = ex
                        /\ OppositeCounterKept(ex, req[p].body)]_vars
  /\ [](\A i \in 1..Len(done) :
          LET r == done[i]
          IN /\ (r.status = 400 /\ r.error = DuplicateNonce) =>
                  \E b \in ValidatedOn(r.body.exchangeId) : b.nonce = r.body.nonce
             /\ (r.status = 400 /\ r.error = SeqTooOld) =>
                  \E b \in ValidatedOn(r.body.exchangeId) :
                    /\ b.hasSeq /\ b.sequenceNumber >= r.body.sequenceNumber
                    /\ b.fromUserId = r.body.fromUserId)

(* The same sequence number and nonce have been accepted on two exchanges,
   each moving only the counter of its own channel and direction, and a
   further message of the first exchange has been rejected for that nonce. *)
C22_Witness ==
  /\ {"e1", "e2"} \subseteq DOMAIN db
  /\ \E a, b \in Validated :
       /\ a.exchangeId = "e1" /\ b.exchangeId = "e2"
       /\ a.hasSeq /\ b.hasSeq /\ a.sequenceNumber = b.sequenceNumber
       /\ a.nonce = b.nonce /\ a.nonce # ""
       /\ StoredCounter(a) = a.sequenceNumber /\ StoredCounter(b) = b.sequenceNumber
  /\ db["e1"].sequenceToFrom = 0 /\ db["e2"].sequenceToFrom = 0
  /\ \E i \in 1..Len(done) :
       /\ done[i].body.exchangeId = "e1"
       /\ done[i].status = 400 /\ done[i].error = DuplicateNonce

(* The answered requests that carry an exchange id but no sequence number. *)
Unnumbered(r) == r.body.exchangeId # "" /\ ~r.body.hasSeq

(* C23 as stated: a message with an exchange id but without sequence number
   is never rejected by the replay validation. *)
C23_UnnumberedNeverRejected ==
  \A i \in 1..Len(done) : Unnumbered(done[i]) => done[i].status # 400

(* C23 amended: for a message with an exchange id but without sequence
   number only the sequence check is skipped. It is never rejected as a
   stale sequence and its saves leave both counters of the channel as they
   were; the pair, nonce and timestamp checks still apply, so a rejection
   of it carries one of their reasons. *)
C23_OnlySequenceCheckSkipped ==
  /\ [](\A i \in 1..Len(done) :
          (Unnumbered(done[i]) /\ done[i].status = 400) =>
            done[i].error \in {PairMismatch, DuplicateNonce, BadTimestamp})
  /\ [][\A p \in Procs :
          (Saving(p) /\ ~req[p].body.hasSeq
             /\ req[p].body.exchangeId \in DOMAIN db) =>
            LET ex == req[p].body.exchangeId
            IN /\ db'[ex].sequenceFromTo = db[ex].sequenceFromTo
               /\ db'[ex].sequenceToFrom = db[ex].sequenceToFrom]_vars

(* A message without sequence number has been accepted on a channel whose
   counter stands at a number already, and the same message sent again has
   been rejected for its nonce. *)
C23_Witness ==
  \E i, j \in 1..Len(done) :
    /\ i < j /\ Unnumbered(done[i]) /\ done[j].body = done[i].body
    /\ Accepted(done[i]) /\ ~done[i].failOpen
    /\ done[j].status = 400 /\ done[j].error = DuplicateNonce
    /\ StoredCounter(done[i].body) > 0

---------------------------------------------------------------------------
(* Properties of the exchange among honest parties *)

InitiateRequests == {r \in outbox : r.url = "/key-exchange/initiate"}

(* C24: when the identity signing key of a user cannot be loaded, his
   initiateKeyExchange fails before anything is sent: the call throws the
   error of the lookup, no initiate request of his has left the client, the
   relay holds no exchange record of his, and his local store retains no
   ephemeral key pair. *)
C24_NoIdentityNothingSentNothingKept ==
  \A u \in Users \ scenario.identities :
    /\ \A c \in KxCalls :
         (c.op = "initiate" /\ c.by = u) =>
           /\ c.result = PrivateKeyNotFound
           /\ ~c.facts.posted /\ ~c.facts.wrote /\ ~c.facts.stored
    /\ call[u].op # "initiate"
    /\ \A r \in InitiateRequests : r.body.fromUserId # u
    /\ \A e \in DOMAIN kx : kx[e].fromUserId # u
    /\ ephemeralKeys[u] = <<>>

(* The initiateKeyExchange of the user without identity key has failed,
   while that of a user with one has created a record and kept its
   ephemeral key pair. *)
C24_Witness ==
  /\ \E c \in KxCalls :
       /\ c.op = "initiate" /\ c.by \notin scenario.identities
       /\ c.result = PrivateKeyNotFound
  /\ \E e \in DOMAIN kx : e \in DOMAIN ephemeralKeys[kx[e].fromUserId]

(* The four conditions of an acceptance, on a channel state with the given
   pair, counters and nonce entries, for body b at server time now. *)
PairMatches(ch, b) ==
  \/ ch.fromUserId = b.fromUserId /\ ch.toUserId = b.toUserId
  \/ ch.fromUserId = b.toUserId /\ ch.toUserId = b.fromUserId
CounterOfDirection(ch, b) ==
  IF ch.fromUserId = b.fromUserId /\ ch.toUserId = b.toUserId
    THEN ch.sequenceFromTo ELSE ch.sequenceToFrom
NumberFresh(ch, b) == ~b.hasSeq \/ b.sequenceNumber >= CounterOfDirection(ch, b) + 1
PurgedNonces(ch) ==
  {entry.nonce : entry \in {x \in ch.usedNonces : now - x.createdAt < ONE_HOUR}}
NonceUnused(ch, b) == b.nonce = "" \/ b.nonce \notin PurgedNonces(ch)
StampInWindow(b) ==
  \/ b.timestamp = 0
  \/ (now - b.timestamp <= TIMESTAMP_WINDOW /\ b.timestamp - now <= TIMESTAMP_WINDOW)
(* The reason the first failing condition gives, "" if none fails. *)
FirstFailing(ch, b) ==
  IF ~PairMatches(ch, b) THEN PairMismatch
  ELSE IF ~NumberFresh(ch, b) THEN SeqTooOld
  ELSE IF ~NonceUnused(ch, b) THEN DuplicateNonce
  ELSE IF ~StampInWindow(b) THEN BadTimestamp
  ELSE ""
(* The step is the verdict of request p, reached without a storage error. *)
Decides(p) == Checking(p) /\ ~req'[p].failOpen
(* The channel state request p read: the document findOne returned, or the
   pair of the request with zero counters and no entries if there was
   none. *)
ChannelRead(p) == Stored(sequenceDoc[p])
(* The step is the lookup of request p. *)
Reads(p) == pc[p] = "findOne" /\ pc'[p] = "cleanupSave"

(* C25: absent storage errors, validateReplayProtection accepts exactly
   when (a) the pair of the message matches the recorded pair in one of the
   two directions, (b) the sequence number is absent or at least the
   counter of that direction plus 1, (c) the nonce is absent or not in the
   purged nonce set of the channel, (d) the timestamp is absent or within
   five minutes of the server clock; the conditions are evaluated in this
   order and the first that fails gives the reason of the rejection. The
   channel state is the stored one as the call read it. *)
C25_VerdictIsFirstFailingCheck ==
  /\ [][\A p \in Procs :
          Reads(p) =>
            LET ex == req[p].body.exchangeId
                d == sequenceDoc'[p]
            IN IF ex \in DOMAIN db
                 THEN /\ d.fromUserId = db[ex].fromUserId
                      /\ d.toUserId = db[ex].toUserId
                      /\ d.sequenceFromTo = db[ex].sequenceFromTo
                      /\ d.sequenceToFrom = db[ex].sequenceToFrom
                      /\ {entry.nonce : entry \in d.usedNonces} = PurgedNonces(db[ex])
                 ELSE /\ d.fromUserId = req[p].body.fromUserId
                      /\ d.toUserId = req[p].body.toUserId
                      /\ d.sequenceFromTo = 0 /\ d.sequenceToFrom = 0
                      /\ d.usedNonces = {}]_vars
  /\ [][\A p \in Procs :
          Decides(p) =>
            LET reason == FirstFailing(ChannelRead(p), req[p].body)
            IN IF reason = "" THEN pc'[p] = "finalSave"
               ELSE RejectedWith(p, reason)]_vars

(* One message has passed all four checks and has been accepted, one has
   failed the first of them (the pair) and one only the last (the
   timestamp). *)
C25_Witness ==
  \E i, j, k \in 1..Len(done) :
    /\ Accepted(done[i]) /\ ~done[i].failOpen /\ Sequenced(done[i])
    /\ done[i].body.nonce # ""
    /\ done[j].status = 400 /\ done[j].error = PairMismatch
    /\ done[k].status = 400 /\ done[k].error = BadTimestamp

(* The step answers request p with a rejection of the replay validation. *)
Rejects(p) ==
  /\ Checking(p)
  /\ Len(done') = Len(done) + 1
  /\ done'[Len(done')].id = req[p].id /\ done'[Len(done')].status = 400

(* C26: a rejection leaves the persisted counters and nonce set of the
   channel as they were, except that the nonce entries older than one hour
   are gone (a channel that had no document gets one with zero counters
   and no nonces): in particular neither the sequence number nor the nonce
   of the rejected message is recorded. *)
C26_RejectionPersistsOnlyThePurge ==
  [][\A p \in Procs :
       Rejects(p) =>
         LET ex == req[p].body.exchangeId
         IN IF ex \in DOMAIN db
              THEN /\ db'[ex].sequenceFromTo = db[ex].sequenceFromTo
                   /\ db'[ex].sequenceToFrom = db[ex].sequenceToFrom
                   /\ db'[ex].usedNonces =
                        {x \in db[ex].usedNonces : now - x.createdAt < ONE_HOUR}
              ELSE /\ db'[ex].sequenceFromTo = 0 /\ db'[ex].sequenceToFrom = 0
                   /\ db'[ex].usedNonces = {}]_vars

(* A message with a fresh sequence number and nonce has been rejected for
   its timestamp an hour after an acceptance: the counter still stands at
   the accepted number, and the nonce set has lost the old entry and not
   gained the rejected nonce. *)
C26_Witness ==
  \E i, j \in 1..Len(done) :
    /\ i < j /\ Accepted(done[i]) /\ ~done[i].failOpen /\ Sequenced(done[i])
    /\ done[j].status = 400 /\ done[j].error = BadTimestamp
    /\ SameDirection(done[i], done[j])
    /\ done[j].body.sequenceNumber > done[i].body.sequenceNumber
    /\ done[j].tv - done[i].tv >= ONE_HOUR
    /\ StoredCounter(done[j].body) = done[i].body.sequenceNumber
    /\ StoredNonces(done[j].body.exchangeId) = {}

(* What a respond request writes into the record of an exchange. *)
ResponderFields(x) ==
  <<x.responderEphemeralPublicKey, x.responderSignature, x.keyConfirmation,
    x.responseNonce>>

(* C27: the relay accepts at most one respond request per exchange: once
   the responder's public key, signature, confirmation tag and nonce are
   written (the record is no longer pending), no step of the relay's
   handlers writes them again. *)
C27_ResponseWrittenOnce ==
  [][tampered' = tampered =>
       \A e \in DOMAIN kx \cap DOMAIN kx' :
         kx[e].status # "pending" =>
           ResponderFields(kx'[e]) = ResponderFields(kx[e])]_vars

(* C28: whenever the relay's record of an exchange has status confirmed,
   both the initiator and the responder hold a stored session key for that
   exchange id. *)
C28_ConfirmedImpliesBothKeysStored ==
  \A e \in DOMAIN kx :
    kx[e].status = "confirmed" =>
      /\ e \in DOMAIN sessionKeys[kx[e].fromUserId]
      /\ e \in DOMAIN sessionKeys[kx[e].toUserId]

(* C29: the pair recorded for a channel is that of the message whose
   validation created the document, it is stored by that validation even
   when the message is then rejected, it never changes afterwards, and
   from then on only messages between the two recorded users, in either
   direction, pass the validation of that exchange. *)
C29_PairFixedByFirstMessage ==
  /\ [][\A ex \in DOMAIN db' :
          IF ex \in DOMAIN db
            THEN /\ db'[ex].fromUserId = db[ex].fromUserId
                 /\ db'[ex].toUserId = db[ex].toUserId
            ELSE \E p \in Procs :
                   /\ Checking(p) /\ req[p].body.exchangeId = ex
                   /\ db'[ex].fromUserId = req[p].body.fromUserId
                   /\ db'[ex].toUserId = req[p].body.toUserId]_vars
  /\ [](\A b \in Validated :
          b.exchangeId \in DOMAIN db => PairMatches(db[b.exchangeId], b))

---------------------------------------------------------------------------
(* Properties of the client's sequence numbers *)

SequenceCalls == {i \in 1..Len(kxDone) : kxDone[i].op = "sequence"}

(* C30: on one client, the numbers getNextSequenceNumber returns for the
   same exchange id and direction are strictly increasing from call to
   call. *)
C30_SequenceNumbersStrictlyIncrease ==
  \A i, j \in SequenceCalls :
    (/\ i < j
     /\ kxDone[i].by = kxDone[j].by
     /\ kxDone[i].exchangeId = kxDone[j].exchangeId
     /\ kxDone[i].toUserId = kxDone[j].toUserId) =>
      kxDone[i].sequenceNumber < kxDone[j].sequenceNumber

====
